---- MODULE Spec2Model ----
(***************************************************************************)
(* State-machine model of the RPAS flight log: the mission form (draft,    *)
(* step pointer, risk table, save), the persistence adapter (mission table *)
(* keyed by id, settings table holding 'customLists') and backup restore.  *)
(*                                                                         *)
(* The repository holds several variants of the application.  The model    *)
(* carries the variant as a state component fixed at start-up:             *)
(*   "part000"  src/unnamed/part_000 (Dexie, restore inside a transaction) *)
(*   "main"     src/src/main.jsx (mock Dexie, restore without shape check) *)
(*   "appA"     src/GULF RPAS GEM/GULF RPAS GEM/src/App.jsx (two-step form)*)
(*                                                                         *)
(* Encodings.  An id is a natural number; 0 stands for the empty string    *)
(* (and for an absent id: both are falsy in `initialData?.id || ...`).     *)
(* A `created` stamp is a natural number, 0 standing for absent.  A        *)
(* datetime-local string "YYYY-MM-DDTHH:MM" is the tuple <<day, hour,      *)
(* minute>>, the empty string is the empty tuple.                          *)
(***************************************************************************)
EXTENDS Integers, Sequences, FiniteSets, TLC

VARIABLES
  variant,         \* which source variant runs
  view,            \* App: 'dashboard' | 'form'
  missions,        \* App: in-memory mission array (React state)
  editingMission,  \* App: <<>> (null) or <<record>>
  lists,           \* App: in-memory suggestion-list store
  dbMissions,      \* persisted table missions, a function id -> record
  dbSettings,      \* persisted settings row 'customLists': <<>> or <<value>>
  tx,              \* open Dexie transaction: <<>> or <<[missions, settings]>>
  formData,        \* MissionForm: the draft
  step,            \* MissionForm: step pointer
  task,            \* the handler that ran last: its name, where it stands, its arguments
  settingsQ,       \* settings writes issued by handleUpdateList, not yet settled
  download,        \* the files handed to the browser for download, oldest first
  searchTerm,      \* Dashboard: the text of the search input
  worker,          \* the service worker: its script, its cache, the network, its last answer
  pad,             \* SketchPad: isDrawing, the canvas, the snapshots emitted
  msg              \* text of the alert shown by the current handler ("" if none)

vars == <<variant, view, missions, editingMission, lists, dbMissions,
          dbSettings, tx, formData, step, task, settingsQ, download,
          searchTerm, worker, pad, msg>>

----------------------------------------------------------------------------
(* Bounds of the model *)

\* generateId returns one of the ids 0..MaxId (0 is the empty string)
MaxId == 1
\* new Date().toISOString() returns one of the stamps 1..MaxClock
MaxClock == 2
\* number of hazards of RISK_ITEMS the risk table of the model shows
NumHazards == 2
\* longest missions array of a backup document
MaxDocLen == 2

Variants == {"part000", "main", "appA"}

\* "appB" is src/GULF RPAS GEM/src/App.jsx, which keeps its records and lists
\* in localStorage and has neither backup nor restore
AllVariants == Variants \cup {"appB"}

----------------------------------------------------------------------------
(* Utilities *)

\* Math.random().toString(36).substr(2, 9): any id, the empty string included
\* (Math.random() = 0 gives "0", whose substr(2, 9) is "")
generateId == 0..MaxId

\* new Date().toISOString(): a non-empty stamp
NowStamps == 1..MaxClock

\* date.getTimezoneOffset(), in minutes (Atlantic Standard Time)
getTimezoneOffset == 240

\* new Date(dateString): local wall-clock fields to minutes since the epoch (UTC)
ParseLocal(s) ==
  (s[1] * 24 + s[2]) * 60 + s[3] + getTimezoneOffset

\* toISOString().slice(0, 16) of a UTC instant given in minutes
ToISOString(t) ==
  << t \div (24 * 60), (t \div 60) % 24, t % 60 >>

\* addMinutes(dateString, minutes)
addMinutes(dateString, minutes) ==
  IF dateString = <<>> THEN <<>>
  ELSE LET date == ParseLocal(dateString) + minutes
           offset == getTimezoneOffset
       IN  ToISOString(date - offset)

----------------------------------------------------------------------------
(* Suggestion lists and the risk table *)

DEFAULT_LISTS_part000 ==
  [ rpas |-> <<"Mavic 2 Enterprise", "Matrice 300", "Mini 3 Pro">>,
    pilots |-> <<"Officer Smith", "Officer Jones">>,
    payload |-> <<"Visual", "Thermal", "LiDAR">>,
    opCategories |-> <<"Microdrone", "Basic", "Advanced", "Level 1 Complex", "SFOC">>,
    observers |-> <<"None">>,
    types |-> <<"Training", "Enforcement", "Search & Rescue", "Habitat Survey">>,
    locations |-> <<>>,
    airspaces |-> <<"Class G", "Class F", "Class C", "Class D", "Class E">>,
    aerodromes |-> <<"Fredericton (CYFC) - 119.5", "Moncton (CYQM) - 120.8",
                     "Saint John (CYSJ) - 118.5", "Bathurst (CYBF) - 122.3",
                     "Miramichi (CYCH) - 122.8", "Charlottetown (CYYG) - 118.0",
                     "Summerside (CYSU) - 122.3", "Halifax (CYHZ) - 118.7",
                     "Sydney (CYQY) - 118.7", "Yarmouth (CYQY) - 122.3",
                     "Greenwood (CYZX) - 119.5", "Trenton (CYTN) - 122.8">>,
    airspaceTypes |-> <<"Uncontrolled", "Controlled", "Restricted">> ]

\* App.jsx: the five lists of the two-step variant
DEFAULT_LISTS_appA ==
  [ rpas |-> <<"Mavic 2 Enterprise", "Matrice 300", "Mini 3 Pro">>,
    pilots |-> <<"Officer Smith", "Officer Jones">>,
    payload |-> <<"Visual", "Thermal", "LiDAR">>,
    observers |-> <<"None">>,
    types |-> <<"Training", "Enforcement", "Search & Rescue", "Habitat Survey">> ]

\* main.jsx holds the same ten lists as part_000 (a record has no key order)
DEFAULT_LISTS(v) ==
  IF v \in {"appA", "appB"} THEN DEFAULT_LISTS_appA ELSE DEFAULT_LISTS_part000

RISK_ITEMS ==
  << "Presence of people", "Proximity to built-up area", "Proximity to obstacles",
     "Proximity to protected birds or animals", "Proximity to air traffic",
     "Operation in control zones", "Airspace restriction (F zone)",
     "Risk of radio interference", "Proximity to magnetic fields",
     "Environment with sand or dust in suspension", "Proximity to glass buildings",
     "Strong wind condition", "Very cold weather",
     "Heat wave condition (heat stress)", "Municipal restriction",
     "Risk of intrusion into privacy", "Proximity of pyrotechnic",
     "Drone not contrasted with the horizon", "Any other risk" >>

\* the hazards the model's risk table shows
Hazards == { RISK_ITEMS[i] : i \in 1..NumHazards }

\* saveMission: keysToCheck, in the order the loop visits them
keysToCheck(v) ==
  CASE v = "part000" ->
         << "pilots", "rpas", "observers", "payload", "opCategories", "types",
            "locations", "airspaces", "aerodromes", "airspaceTypes" >>
    [] v = "main" ->
         << "pilots", "rpas", "observers", "payload", "types", "locations",
            "airspaces", "aerodromes", "airspaceTypes", "opCategories" >>
    [] OTHER -> << "pilots", "rpas", "observers", "payload", "types" >>

\* saveMission: fieldMap
fieldMap ==
  [ pilots |-> "pilot", rpas |-> "rpas", observers |-> "observer",
    payload |-> "payload", opCategories |-> "opCategory", types |-> "type",
    locations |-> "location", airspaces |-> "airspace",
    aerodromes |-> "aerodromes", airspaceTypes |-> "airspaceType" ]

Includes(seq, x) == \E i \in 1..Len(seq) : seq[i] = x

\* array.filter(x => x !== value)
RECURSIVE Without(_, _)
Without(seq, value) ==
  IF seq = <<>> THEN <<>>
  ELSE IF Head(seq) = value THEN Without(Tail(seq), value)
       ELSE <<Head(seq)>> \o Without(Tail(seq), value)

handleUpdateList_append(ls, key, value, action) ==
  LET current == IF key \in DOMAIN ls THEN ls[key] ELSE <<>>
      set(val) == [ k \in DOMAIN ls \cup {key} |-> IF k = key THEN val ELSE ls[k] ]
  IN  IF action = "add" THEN set(Append(current, value))
      ELSE IF action = "del" THEN set(Without(current, value))
      ELSE ls

\* handleUpdateList / updateList: the newLists it computes from the rendered lists
handleUpdateList(ls, key, value, action) ==
  LET current == IF key \in DOMAIN ls THEN ls[key] ELSE <<>>
      set(val) == [ k \in DOMAIN ls \cup {key} |-> IF k = key THEN val ELSE ls[k] ]
  IN  IF action = "add" /\ ~Includes(current, value) THEN set(Append(current, value))
      ELSE IF action = "del" THEN set(Without(current, value))
      ELSE ls

----------------------------------------------------------------------------
(* Mission records and the draft *)

NoRisks == [ h \in {} |-> 0 ]

\* MissionForm: the initial formData of a new mission (initialData is null)
NewDraft(v, nowStr) ==
  [ id |-> 0, created |-> 0,
    start |-> IF v \in {"appA", "appB"} THEN <<>> ELSE nowStr,
    end |-> IF v \in {"appA", "appB"} THEN <<>> ELSE addMinutes(nowStr, 30),
    location |-> "", pilot |-> "", rpas |-> "", observer |-> "", payload |-> "",
    opCategory |-> IF v = "part000" THEN "Basic" ELSE "",
    type |-> "", airspace |-> "", airspaceType |-> "", aerodromes |-> <<>>,
    sketch |-> <<>>, coords |-> [ lat |-> "", lng |-> "" ], risks |-> NoRisks ]

\* MissionForm: update(k, v)
update(v, prev, k, val) ==
  LET newData == [ prev EXCEPT ![k] = val ]
  IN  IF v \notin {"appA", "appB"} /\ k = "start" /\ val # <<>>
      THEN [ newData EXCEPT !.end = addMinutes(val, 30) ]
      ELSE newData

DefaultRisk_low == [ checked |-> FALSE, level |-> "Low", desc |-> "", mitigation |-> "" ]

\* handleRiskChange: the entry a hazard without one starts from
DefaultRisk == [ checked |-> FALSE, level |-> "", desc |-> "", mitigation |-> "" ]

\* the value a sub-field of a risk entry takes: a boolean for 'checked', text otherwise
RiskEntryWith(entry, field, value) == [ entry EXCEPT ![field] = value ]

handleRiskChange_keepsEntry(prev, riskName, field, value) ==
  LET currentRisk == IF riskName \in DOMAIN prev.risks THEN prev.risks[riskName]
                     ELSE [ checked |-> FALSE, level |-> "", desc |-> "",
                            mitigation |-> "" ]
  IN  [ prev EXCEPT !.risks =
          [ h \in DOMAIN prev.risks \cup {riskName} |->
              IF h = riskName THEN [ currentRisk EXCEPT ![field] = value ]
              ELSE prev.risks[h] ] ]

\* MissionForm: handleRiskChange(riskName, field, value)
handleRiskChange(prev, riskName, field, value) ==
  LET currentRisk == IF riskName \in DOMAIN prev.risks THEN prev.risks[riskName]
                     ELSE DefaultRisk
  IN  IF field = "checked" /\ value = FALSE
      THEN [ prev EXCEPT !.risks =
               [ h \in DOMAIN prev.risks \ {riskName} |-> prev.risks[h] ] ]
      ELSE [ prev EXCEPT !.risks =
               [ h \in DOMAIN prev.risks \cup {riskName} |->
                   IF h = riskName THEN RiskEntryWith(currentRisk, field, value)
                   ELSE prev.risks[h] ] ]

MissingRequired_locationOnly(fd) == fd.location = ""

\* saveMission: the validation `!formData.location || !formData.pilot`
MissingRequired(fd) == fd.location = "" \/ fd.pilot = ""

\* saveMission: initialData?.id || generateId()
MissionId(initial, fresh) ==
  IF initial # <<>> /\ initial[1].id # 0 THEN initial[1].id ELSE fresh

\* saveMission: initialData?.created || new Date().toISOString()
MissionCreated(initial, now) ==
  IF initial # <<>> /\ initial[1].created # 0 THEN initial[1].created ELSE now

\* saveMission: the (listKey, item) pairs it hands to onUpdateList, in call order
RECURSIVE NovelItems(_, _, _)
NovelItems(items, ls, listKey) ==
  IF items = <<>> THEN <<>>
  ELSE (IF Head(items) # "" /\ listKey \in DOMAIN ls /\ ~Includes(ls[listKey], Head(items))
        THEN << <<listKey, Head(items)>> >> ELSE <<>>)
       \o NovelItems(Tail(items), ls, listKey)

RECURSIVE ListCalls(_, _, _)
ListCalls(keys, fd, ls) ==
  IF keys = <<>> THEN <<>>
  ELSE LET listKey == Head(keys)
           val == fd[fieldMap[listKey]]
           items == IF listKey = "aerodromes" THEN val ELSE <<val>>
       IN  NovelItems(items, ls, listKey) \o ListCalls(Tail(keys), fd, ls)

\* each call computes newLists from the lists of the render the form closed over
RECURSIVE CallResults(_, _)
CallResults(calls, ls) ==
  IF calls = <<>> THEN <<>>
  ELSE << handleUpdateList(ls, Head(calls)[1], Head(calls)[2], "add") >>
       \o CallResults(Tail(calls), ls)

ListsAfterCalls_first(results, ls) ==
  IF results = <<>> THEN ls ELSE results[1]

\* setLists(newLists) of every call in one event: the last value set is rendered
ListsAfterCalls(results, ls) ==
  IF results = <<>> THEN ls ELSE results[Len(results)]

----------------------------------------------------------------------------
(* Persistence adapter: the mission table is a function id -> record *)

EmptyTable == [ i \in {} |-> 0 ]

\* db.missions.put(item): insert or replace by id
TablePut(t, item) ==
  [ i \in DOMAIN t \cup {item.id} |-> IF i = item.id THEN item ELSE t[i] ]

TableDelete_all(t, id) == [ i \in {} |-> 0 ]

\* db.missions.delete(id)
TableDelete(t, id) == [ i \in DOMAIN t \ {id} |-> t[i] ]

TableClear_keep(t) == t

\* db.missions.clear()
TableClear(t) == EmptyTable

\* db.missions.bulkPut(items)
RECURSIVE TableBulkPut(_, _)
TableBulkPut(t, items) ==
  IF items = <<>> THEN t ELSE TableBulkPut(TablePut(t, Head(items)), Tail(items))

\* db.missions.toArray(): the records in primary-key order
RECURSIVE KeyOrder(_, _)
KeyOrder(t, keys) ==
  IF keys = {} THEN <<>>
  ELSE LET k == CHOOSE x \in keys : \A y \in keys : x <= y
       IN  <<t[k]>> \o KeyOrder(t, keys \ {k})

TableToArray(t) == KeyOrder(t, DOMAIN t)

----------------------------------------------------------------------------
(* Handlers in flight *)

NoDraft == NewDraft("appA", <<>>)

TerminalPcs == {"idle", "done", "failed", "rejected", "declined", "invalid"}

\* key: the field a synchronous handler was called for, or the kind of the
\* missions value of the document a restore was called for; arg: the other
\* arguments of a synchronous handler
IdleTask ==
  [ op |-> "none", pc |-> "idle", key |-> "", arg |-> <<>>, mission |-> <<>>,
    doc |-> <<>>, id |-> 0, confirmed |-> FALSE, ioError |-> FALSE ]

\* an asynchronous handler has ended at pc: what it held is released
Ended(t, pc) == [ IdleTask EXCEPT !.op = t.op, !.pc = pc, !.key = t.key ]

\* a handler without awaits has run to its end
Did(op, key) == [ IdleTask EXCEPT !.op = op, !.pc = "done", !.key = key ]

\* no handler is suspended on a persistence call and no settings write is pending
Idle == task.pc \in TerminalPcs /\ settingsQ = <<>>

\* the step on which the risk table and the Save button are rendered
LastStep(v) == IF v \in {"appA", "appB"} THEN 2 ELSE 3

\* how a handler ends when a persistence call it awaits rejects: "failed" is a
\* catch block with an alert, "rejected" an unhandled rejection (no message)
SaveFailure(v) ==
  CASE v = "part000" -> [ pc |-> "failed", msg |-> "Failed to save." ]
    [] v = "appA" -> [ pc |-> "failed", msg |-> "Failed to save mission to database." ]
    [] OTHER -> [ pc |-> "rejected", msg |-> "" ]

\* the origin's URLs the model requests: the two addresses of the page and one
\* asset; 0 in the cache stands for no entry, a positive number for the
\* version of the response stored
WorkerUrls == {"/", "/index.html", "/assets/index.js"}

\* a service worker just activated (the activate listener has deleted the
\* caches of other names, the cache of its own name is empty), online
WorkerStart(script) ==
  [ script |-> script, online |-> TRUE, server |-> 1,
    cache |-> [ u \in WorkerUrls |-> 0 ], served |-> <<>> ]

\* SketchPad as mounted: not drawing, a blank canvas (raster counts the line
\* segments drawn), onSave not yet called with a snapshot; event is the last
\* pointer event the canvas received
NewPad == [ isDrawing |-> FALSE, raster |-> 0, emitted |-> 0, event |-> "mount" ]

Init ==
  /\ variant \in Variants
  /\ view = "dashboard"
  /\ missions = <<>>
  /\ editingMission = <<>>
  /\ lists = DEFAULT_LISTS(variant)
  /\ dbMissions = EmptyTable
  /\ dbSettings = <<>>
  /\ tx = <<>>
  /\ formData = NoDraft
  /\ step = 1
  /\ task = IdleTask
  /\ settingsQ = <<>>
  /\ download = <<>>
  /\ searchTerm = <<>>
  /\ worker = WorkerStart("sw.js")
  /\ pad = NewPad
  /\ msg = ""

----------------------------------------------------------------------------
(* Dashboard and form navigation *)

\* Dashboard onCreateNew: setEditingMission(null); setView('form')
CreateNew(nowStr) ==
  /\ view = "dashboard" /\ Idle
  /\ editingMission' = <<>>
  /\ view' = "form"
  /\ formData' = NewDraft(variant, nowStr)
  /\ step' = 1
  /\ msg' = ""
  /\ task' = Did("onCreateNew", "")
  /\ UNCHANGED <<variant, worker, pad, download, searchTerm, missions, lists,
                 dbMissions, dbSettings, tx, settingsQ>>

\* handleEditStart(mission): the form mounts with initialData = mission
EditStart(i) ==
  /\ view = "dashboard" /\ Idle
  /\ i \in 1..Len(missions)
  /\ editingMission' = << missions[i] >>
  /\ view' = "form"
  /\ formData' = missions[i]
  /\ step' = 1
  /\ msg' = ""
  /\ task' = Did("handleEditStart", "")
  /\ UNCHANGED <<variant, worker, pad, download, searchTerm, missions, lists,
                 dbMissions, dbSettings, tx, settingsQ>>

Cancel_keepsDraft ==
  /\ view = "form" /\ Idle
  /\ view' = "dashboard"
  /\ missions' = IF editingMission = <<>> THEN <<formData>> \o missions
                 ELSE [ i \in 1..Len(missions) |->
                          IF missions[i].id = editingMission[1].id
                          THEN formData ELSE missions[i] ]
  /\ formData' = NoDraft
  /\ step' = 1
  /\ msg' = ""
  /\ task' = Did("onCancel", "")
  /\ pad' = NewPad
  /\ UNCHANGED <<variant, worker, download, searchTerm, editingMission, lists,
                 dbMissions, dbSettings, tx, settingsQ>>

\* MissionForm onCancel: setView('dashboard'); the form unmounts, and the
\* SketchPad with it
Cancel ==
  /\ view = "form" /\ Idle
  /\ view' = "dashboard"
  /\ formData' = NoDraft
  /\ step' = 1
  /\ msg' = ""
  /\ task' = Did("onCancel", "")
  /\ pad' = NewPad
  /\ UNCHANGED <<variant, worker, download, searchTerm, missions,
                 editingMission, lists, dbMissions, dbSettings, tx,
                 settingsQ>>

\* footer: Next is rendered while step < last step; the sections are rendered
\* by step, so the SketchPad of the step left or entered is mounted anew
NextStep ==
  /\ view = "form" /\ Idle
  /\ step < LastStep(variant)
  /\ step' = step + 1
  /\ msg' = ""
  /\ task' = Did("next", "")
  /\ pad' = NewPad
  /\ UNCHANGED <<variant, worker, download, searchTerm, view, missions,
                 editingMission, lists, dbMissions, dbSettings, tx, formData,
                 settingsQ>>

\* footer: Back is rendered while step > 1
BackStep ==
  /\ view = "form" /\ Idle
  /\ step > 1
  /\ step' = step - 1
  /\ msg' = ""
  /\ task' = Did("back", "")
  /\ pad' = NewPad
  /\ UNCHANGED <<variant, worker, download, searchTerm, view, missions,
                 editingMission, lists, dbMissions, dbSettings, tx, formData,
                 settingsQ>>

\* an input of step 1 changes: update(k, val)
Update(k, val) ==
  /\ view = "form" /\ Idle
  /\ step = 1
  /\ formData' = update(variant, formData, k, val)
  /\ msg' = ""
  /\ task' = [ Did("update", k) EXCEPT !.arg = <<val>> ]
  /\ UNCHANGED <<variant, worker, pad, download, searchTerm, view, missions,
                 editingMission, lists, dbMissions, dbSettings, tx, step,
                 settingsQ>>

\* the sub-field inputs of a hazard are rendered only while it is checked
RiskFieldShown(fd, riskName, field) ==
  field = "checked" \/ (riskName \in DOMAIN fd.risks /\ fd.risks[riskName].checked)

\* an input of the risk table changes: handleRiskChange(riskName, field, value)
RiskChange(riskName, field, value) ==
  /\ view = "form" /\ Idle
  /\ step = LastStep(variant)
  /\ RiskFieldShown(formData, riskName, field)
  /\ formData' = handleRiskChange(formData, riskName, field, value)
  /\ msg' = ""
  /\ task' = [ Did("handleRiskChange", field) EXCEPT !.arg = <<riskName, value>> ]
  /\ UNCHANGED <<variant, worker, pad, download, searchTerm, view, missions,
                 editingMission, lists, dbMissions, dbSettings, tx, step,
                 settingsQ>>

----------------------------------------------------------------------------
(* Save *)

\* MissionForm saveMission, up to the call of onSave(mission); fresh is what
\* generateId() returns and now what new Date().toISOString() returns
SaveMission(fresh, now) ==
  /\ view = "form" /\ Idle
  /\ step = LastStep(variant)
  /\ IF MissingRequired(formData)
     THEN /\ msg' = "Please enter at least a Location and Pilot name."
          /\ task' = [ IdleTask EXCEPT !.op = "save", !.pc = "invalid" ]
          /\ UNCHANGED <<lists, settingsQ>>
     ELSE LET calls == ListCalls(keysToCheck(variant), formData, lists)
              results == CallResults(calls, lists)
              mission == [ formData EXCEPT
                             !.id = MissionId(editingMission, fresh),
                             !.created = MissionCreated(editingMission, now) ]
          IN  /\ lists' = ListsAfterCalls(results, lists)
              /\ settingsQ' = settingsQ \o results
              /\ task' = [ IdleTask EXCEPT !.op = "save", !.pc = "put",
                                           !.mission = <<mission>> ]
              /\ msg' = ""
  /\ UNCHANGED <<variant, worker, pad, download, searchTerm, view, missions,
                 editingMission, dbMissions, dbSettings, tx, formData, step>>

\* handleSaveMission / onSave: await db.missions.put(mission) settles
SavePut(fail) ==
  /\ task.op = "save" /\ task.pc = "put"
  /\ IF fail
     THEN /\ task' = Ended(task, SaveFailure(variant).pc)
          /\ msg' = SaveFailure(variant).msg
          /\ UNCHANGED dbMissions
     ELSE /\ dbMissions' = TablePut(dbMissions, task.mission[1])
          /\ task' = [ task EXCEPT !.pc = "toArray" ]
          /\ UNCHANGED msg
  /\ UNCHANGED <<variant, worker, pad, download, searchTerm, view, missions,
                 editingMission, lists, dbSettings, tx, formData, step,
                 settingsQ>>

\* handleSaveMission / onSave: await db.missions.toArray() settles, then
\* setMissions, (setEditingMission(null),) setView('dashboard')
SaveRead(fail) ==
  /\ task.op = "save" /\ task.pc = "toArray"
  /\ IF fail
     THEN /\ task' = Ended(task, SaveFailure(variant).pc)
          /\ msg' = SaveFailure(variant).msg
          /\ UNCHANGED <<missions, editingMission, view, formData, step>>
     ELSE /\ missions' = TableToArray(dbMissions)
          /\ editingMission' = IF variant = "main" THEN editingMission ELSE <<>>
          /\ view' = "dashboard"
          /\ formData' = NoDraft
          /\ step' = 1
          /\ task' = Ended(task, "done")
          /\ UNCHANGED msg
  /\ UNCHANGED <<variant, worker, pad, download, searchTerm, lists,
                 dbMissions, dbSettings, tx, settingsQ>>

\* handleUpdateList / updateList: await db.settings.put({key, value}) settles;
\* no caller awaits or catches it, so a failure goes unnoticed
SettingsSettle(fail) ==
  /\ settingsQ # <<>>
  /\ settingsQ' = Tail(settingsQ)
  /\ dbSettings' = IF fail THEN dbSettings ELSE << Head(settingsQ) >>
  /\ UNCHANGED <<variant, worker, pad, download, searchTerm, view, missions,
                 editingMission, lists, dbMissions, tx, formData, step, task,
                 msg>>

----------------------------------------------------------------------------
(* Delete *)

Confirmed_always(answer) == TRUE

\* if (confirm(...)): the branch is taken when the user answers OK
Confirmed(answer) == answer

\* handleDeleteMission / onDelete, up to the first await
DeleteMission(i, answer) ==
  /\ variant # "appB"
  /\ view = "dashboard" /\ Idle
  /\ i \in 1..Len(missions)
  /\ msg' = ""
  /\ task' = IF Confirmed(answer)
             THEN [ IdleTask EXCEPT !.op = "delete", !.pc = "delete",
                                    !.id = missions[i].id, !.confirmed = answer ]
             ELSE [ IdleTask EXCEPT !.op = "delete", !.pc = "declined" ]
  /\ UNCHANGED <<variant, worker, pad, download, searchTerm, view, missions,
                 editingMission, lists, dbMissions, dbSettings, tx, formData,
                 step, settingsQ>>

\* await db.missions.delete(id) settles (no catch: a failure is an unhandled rejection)
DeletePut(fail) ==
  /\ task.op = "delete" /\ task.pc = "delete"
  /\ IF fail
     THEN /\ task' = Ended(task, "rejected")
          /\ UNCHANGED dbMissions
     ELSE /\ dbMissions' = TableDelete(dbMissions, task.id)
          /\ task' = [ task EXCEPT !.pc = "toArray" ]
  /\ UNCHANGED <<variant, worker, pad, download, searchTerm, view, missions,
                 editingMission, lists, dbSettings, tx, formData, step,
                 settingsQ, msg>>

\* await db.missions.toArray() settles, then setMissions
DeleteRead(fail) ==
  /\ task.op = "delete" /\ task.pc = "toArray"
  /\ IF fail
     THEN /\ task' = Ended(task, "rejected")
          /\ UNCHANGED missions
     ELSE /\ missions' = TableToArray(dbMissions)
          /\ task' = Ended(task, "done")
  /\ UNCHANGED <<variant, worker, pad, download, searchTerm, view,
                 editingMission, lists, dbMissions, dbSettings, tx, formData,
                 step, settingsQ, msg>>

----------------------------------------------------------------------------
(* Restore *)

InTransaction_never(v) == FALSE

\* whether handleRestore runs its writes inside db.transaction('rw', ...)
InTransaction(v) == v = "part000"

\* the test made on the parsed document before the confirm dialog:
\* part_000 and App.jsx test `data.missions && Array.isArray(data.missions)`,
\* main.jsx only evaluates d.missions.length for the prompt
ShapeAccepted(v, m) ==
  IF v = "main" THEN m.kind \notin {"absent", "null"} ELSE m.kind = "array"

\* the alert of the branch that rejects the document before the dialog
ShapeMessage(v) == IF v = "main" THEN "Error reading file" ELSE "Invalid backup file."

\* the alert of the catch block
RestoreError(v) == IF v = "main" THEN "Error reading file" ELSE "Error reading file."

\* the alert after a restore that ran to its end (main.jsx shows none)
RestoreSuccess(v) == IF v = "main" THEN "" ELSE "Restored successfully."

\* bulkPut(d.missions) of the mock table throws before any request is made:
\* a number or an object is not iterable, a character is not a record with a key
BulkPutThrows(m) == m.kind \in {"number", "object", "string"}

\* the records bulkPut iterates over
BulkItems(m) == IF m.kind = "array" THEN m.items ELSE <<>>

\* where the restore goes after the bulk insert: if (data.lists) ...
AfterBulkPut(doc, v) ==
  IF doc.lists # <<>> THEN "settings"
  ELSE IF InTransaction(v) THEN "commit" ELSE "toArray"

\* handleRestore / onRestore: reader.onload up to the first await
RestoreStart(doc, answer) ==
  /\ view = "dashboard" /\ Idle
  /\ IF ~ShapeAccepted(variant, doc.missions)
     THEN /\ msg' = ShapeMessage(variant)
          /\ task' = [ IdleTask EXCEPT !.op = "restore", !.key = doc.missions.kind,
                         !.pc = IF variant = "main" THEN "failed" ELSE "invalid" ]
          /\ UNCHANGED tx
     ELSE IF ~Confirmed(answer)
     THEN /\ msg' = ""
          /\ task' = [ IdleTask EXCEPT !.op = "restore", !.key = doc.missions.kind,
                                       !.pc = "declined" ]
          /\ UNCHANGED tx
     ELSE /\ msg' = ""
          /\ task' = [ IdleTask EXCEPT !.op = "restore", !.key = doc.missions.kind,
                                       !.doc = <<doc>>, !.pc = "clear",
                                       !.confirmed = answer ]
          /\ tx' = IF InTransaction(variant)
                   THEN << [ missions |-> dbMissions, settings |-> dbSettings ] >>
                   ELSE <<>>
  /\ UNCHANGED <<variant, worker, pad, download, searchTerm, view, missions,
                 editingMission, lists, dbMissions, dbSettings, formData,
                 step, settingsQ>>

\* a persistence call of the restore rejects: the catch block alerts; an open
\* transaction is rolled back
RestoreFails ==
  /\ msg' = RestoreError(variant)
  /\ task' = Ended(task, "failed")
  /\ tx' = <<>>

\* await db.missions.clear() settles
RestoreClear(fail) ==
  /\ task.op = "restore" /\ task.pc = "clear"
  /\ IF fail
     THEN RestoreFails /\ UNCHANGED dbMissions
     ELSE /\ task' = [ task EXCEPT !.pc = "bulkPut" ]
          /\ IF tx # <<>>
             THEN /\ tx' = << [ tx[1] EXCEPT !.missions = TableClear(@) ] >>
                  /\ UNCHANGED dbMissions
             ELSE /\ dbMissions' = TableClear(dbMissions)
                  /\ UNCHANGED tx
          /\ UNCHANGED msg
  /\ UNCHANGED <<variant, worker, pad, download, searchTerm, view, missions,
                 editingMission, lists, dbSettings, formData, step,
                 settingsQ>>

\* how a bulkPut can end: "ok", "openFails" (the store cannot be opened: the
\* call rejects before any request) or "putFails" (a put request fails and the
\* transaction of the puts aborts: none of them is stored)
BulkOutcomes == {"ok", "openFails", "putFails"}

\* whether the caller of bulkPut sees the failure.  The mock of main.jsx issues
\* its put requests without waiting for them, so a failing request goes unseen
BulkPutRejects(v, outcome) ==
  outcome = "openFails" \/ (outcome = "putFails" /\ v # "main")

\* await db.missions.bulkPut(data.missions) settles
RestoreBulkPut(outcome) ==
  /\ task.op = "restore" /\ task.pc = "bulkPut"
  /\ outcome = "putFails" => BulkItems(task.doc[1].missions) # <<>>
  /\ LET doc == task.doc[1]
         next == AfterBulkPut(doc, variant)
     IN  IF BulkPutThrows(doc.missions) \/ BulkPutRejects(variant, outcome)
         THEN RestoreFails /\ UNCHANGED dbMissions
         ELSE IF outcome = "putFails"
         THEN /\ task' = [ task EXCEPT !.pc = next, !.ioError = TRUE ]
              /\ UNCHANGED <<dbMissions, tx, msg>>
         ELSE /\ task' = [ task EXCEPT !.pc = next ]
              /\ IF tx # <<>>
                 THEN /\ tx' = << [ tx[1] EXCEPT !.missions =
                                      TableBulkPut(@, BulkItems(doc.missions)) ] >>
                      /\ UNCHANGED dbMissions
                 ELSE /\ dbMissions' = TableBulkPut(dbMissions, BulkItems(doc.missions))
                      /\ UNCHANGED tx
              /\ UNCHANGED msg
  /\ UNCHANGED <<variant, worker, pad, download, searchTerm, view, missions,
                 editingMission, lists, dbSettings, formData, step,
                 settingsQ>>

\* if (data.lists): await db.settings.put({key: 'customLists', value: data.lists})
\* settles, then setLists(data.lists)
RestoreSettings(fail) ==
  /\ task.op = "restore" /\ task.pc = "settings"
  /\ LET value == task.doc[1].lists[1]
     IN  IF fail
         THEN RestoreFails /\ UNCHANGED <<dbSettings, lists>>
         ELSE /\ task' = [ task EXCEPT !.pc =
                             IF InTransaction(variant) THEN "commit" ELSE "toArray" ]
              /\ IF tx # <<>>
                 THEN /\ tx' = << [ tx[1] EXCEPT !.settings = <<value>> ] >>
                      /\ UNCHANGED dbSettings
                 ELSE /\ dbSettings' = <<value>>
                      /\ UNCHANGED tx
              /\ lists' = value
              /\ UNCHANGED msg
  /\ UNCHANGED <<variant, worker, pad, download, searchTerm, view, missions,
                 editingMission, dbMissions, formData, step, settingsQ>>

\* the transaction scope has returned: its writes become the tables' contents
RestoreCommit ==
  /\ task.op = "restore" /\ task.pc = "commit"
  /\ dbMissions' = tx[1].missions
  /\ dbSettings' = tx[1].settings
  /\ tx' = <<>>
  /\ task' = [ task EXCEPT !.pc = "toArray" ]
  /\ UNCHANGED <<variant, worker, pad, download, searchTerm, view, missions,
                 editingMission, lists, formData, step, settingsQ, msg>>

\* await db.missions.toArray() settles, then setMissions and the success alert
RestoreRead(fail) ==
  /\ task.op = "restore" /\ task.pc = "toArray"
  /\ IF fail
     THEN RestoreFails /\ UNCHANGED missions
     ELSE /\ missions' = TableToArray(dbMissions)
          /\ msg' = RestoreSuccess(variant)
          /\ task' = Ended(task, "done")
          /\ UNCHANGED tx
  /\ UNCHANGED <<variant, worker, pad, download, searchTerm, view,
                 editingMission, lists, dbMissions, dbSettings, formData,
                 step, settingsQ>>

----------------------------------------------------------------------------
(* The form specification: new missions, edits, saves and deletes *)

\* what getCurrentLocalTime() returns when the form opens
FormNow == <<1, 9, 0>>

\* the values typed or picked in the inputs of step 1
FormInputs ==
  { <<"location", "">>, <<"location", "Site A">>,
    <<"pilot", "">>, <<"pilot", "Pilot X">> }

NextForm ==
  \/ CreateNew(FormNow)
  \/ \E i \in 1..(MaxId + 1) : EditStart(i)
  \/ Cancel
  \/ NextStep
  \/ BackStep
  \/ \E kv \in FormInputs : Update(kv[1], kv[2])
  \/ \E fresh \in generateId, now \in NowStamps : SaveMission(fresh, now)
  \/ \E fail \in BOOLEAN : SavePut(fail)
  \/ \E fail \in BOOLEAN : SaveRead(fail)
  \/ \E fail \in BOOLEAN : SettingsSettle(fail)
  \/ \E i \in 1..(MaxId + 1), answer \in BOOLEAN : DeleteMission(i, answer)
  \/ \E fail \in BOOLEAN : DeletePut(fail)
  \/ \E fail \in BOOLEAN : DeleteRead(fail)

SpecForm == Init /\ [][NextForm]_vars

----------------------------------------------------------------------------
(* The draft specification: one mission filled in, assessed, saved and edited *)

\* what the inputs of the risk table deliver: the checkbox of every hazard, and
\* the level, description and mitigation inputs of the first hazard
RiskInputs(riskName) ==
  { <<"checked", TRUE>>, <<"checked", FALSE>> } \cup
  ( IF riskName = RISK_ITEMS[1]
    THEN { <<"level", "High">>, <<"desc", "Wires">>, <<"mitigation", "Spotter">> }
    ELSE {} )

\* the values typed or picked in the inputs of step 1: a new location and a
\* pilot of the built-in list, or either input cleared
DraftInputs ==
  { <<"location", "">>, <<"location", "Site A">>,
    <<"pilot", "">>, <<"pilot", "Officer Smith">> }

NextDraft ==
  \/ CreateNew(FormNow)
  \/ EditStart(1)
  \/ Cancel
  \/ NextStep
  \/ BackStep
  \/ \E kv \in DraftInputs : Update(kv[1], kv[2])
  \/ \E riskName \in Hazards : \E fv \in RiskInputs(riskName) :
       RiskChange(riskName, fv[1], fv[2])
  \/ SaveMission(MaxId, MaxClock)
  \/ SavePut(FALSE)
  \/ SaveRead(FALSE)
  \/ SettingsSettle(FALSE)

SpecDraft == Init /\ [][NextDraft]_vars

----------------------------------------------------------------------------
(* The time specification: the start and end inputs of step 1 *)

\* values of a datetime-local input: cleared, or a minute of a day
TimeInputs ==
  { <<>>, <<1, 9, 0>>, <<1, 9, 45>>, <<1, 23, 40>>, <<2, 0, 0>>, <<2, 12, 30>> }

NextTime ==
  \/ \E nowStr \in TimeInputs \ {<<>>} : CreateNew(nowStr)
  \/ Cancel
  \/ \E val \in TimeInputs : Update("start", val)
  \/ \E val \in TimeInputs : Update("end", val)

SpecTime == Init /\ [][NextTime]_vars

----------------------------------------------------------------------------
(* The restore specification: backup documents restored one after another *)

\* largest record id of a backup document
MaxDocId == 2

\* the record of id 1 comes in two versions, so that a document can hold a
\* record whose id the table holds with other contents
DocSites(id) == IF id = 1 THEN {"Site A", "Site B"} ELSE {"Site A"}

\* a record as Backup writes it
DocRecord(id, site) ==
  [ NoDraft EXCEPT !.id = id, !.created = id, !.start = FormNow,
                   !.end = addMinutes(FormNow, 30), !.location = site,
                   !.pilot = "Officer Smith" ]

DocRecords ==
  UNION { { DocRecord(id, site) : site \in DocSites(id) } : id \in 1..MaxDocId }

RECURSIVE DocArrays(_)
DocArrays(n) ==
  IF n = 0 THEN { <<>> }
  ELSE LET shorter == DocArrays(n - 1)
       IN  shorter \cup
           { Append(a, r) : a \in { x \in shorter : Len(x) = n - 1 },
                            r \in DocRecords }

\* a missions array as Backup writes it holds the rows of the mission table in
\* key order: the ids are pairwise different and ascending
KeyOrdered(a) == \A i, j \in 1..Len(a) : i < j => a[i].id < a[j].id

\* the lists value of a document: absent, or a suggestion-list store (here one
\* whose user removed a built-in pilot and added one)
DocLists(v) ==
  { <<>>,
    << handleUpdateList(
         handleUpdateList(DEFAULT_LISTS(v), "pilots", "Officer Jones", "del"),
         "pilots", "Pilot X", "add") >> }

\* parsed documents whose missions field is an array of records
GoodDocs(v) ==
  { [ missions |-> [ kind |-> "array", items |-> a ], lists |-> l ] :
      a \in { x \in DocArrays(MaxDocLen) : KeyOrdered(x) }, l \in DocLists(v) }

\* parsed documents whose missions field is absent or is not an array
BadKinds == {"absent", "null", "number", "emptyString", "string", "object"}

BadDocs(v) ==
  { [ missions |-> [ kind |-> k, items |-> <<>> ], lists |-> l ] :
      k \in BadKinds, l \in DocLists(v) }

NextRestore ==
  \/ \E doc \in GoodDocs(variant) \cup BadDocs(variant), answer \in BOOLEAN :
       RestoreStart(doc, answer)
  \/ \E fail \in BOOLEAN : RestoreClear(fail)
  \/ \E outcome \in BulkOutcomes : RestoreBulkPut(outcome)
  \/ \E fail \in BOOLEAN : RestoreSettings(fail)
  \/ RestoreCommit
  \/ \E fail \in BOOLEAN : RestoreRead(fail)

SpecRestore == Init /\ [][NextRestore]_vars

----------------------------------------------------------------------------
(* The stored specification: the application starts on a persisted store,   *)
(* loads it, and the user deletes records                                   *)

\* the mission store at start-up: the Dexie variants hold a table keyed by id,
\* the localStorage variant the JSON text of the array
StoredMissions(v) ==
  { IF v = "appB" THEN a ELSE TableBulkPut(EmptyTable, a) :
      a \in { x \in DocArrays(MaxDocLen) : KeyOrdered(x) } }

\* the list store at start-up: nothing, the five-list store an earlier version
\* wrote, or the variant's own store after the user removed a built-in pilot
\* or a save added a pilot
StoredLists(v) ==
  { <<>>,
    << DEFAULT_LISTS_appA >>,
    << handleUpdateList(DEFAULT_LISTS(v), "pilots", "Officer Jones", "del") >>,
    << handleUpdateList(DEFAULT_LISTS(v), "pilots", "Pilot X", "add") >> }

\* { ...DEFAULT_LISTS, ...saved }
SpreadOver(defaults, saved) ==
  [ k \in DOMAIN defaults \cup DOMAIN saved |->
      IF k \in DOMAIN saved THEN saved[k] ELSE defaults[k] ]

\* loadData: the value handed to setLists for a saved 'customLists' value
LoadedLists(v, saved) ==
  CASE v = "part000" ->
         [ SpreadOver(DEFAULT_LISTS(v), saved) EXCEPT !.opCategories =
             IF "opCategories" \in DOMAIN saved /\ Len(saved.opCategories) > 1
             THEN saved.opCategories ELSE DEFAULT_LISTS(v).opCategories ]
    [] v = "main" -> SpreadOver(DEFAULT_LISTS(v), saved)
    [] OTHER -> saved

\* the application mounts: useState initial values, loadData about to run
InitStored ==
  /\ variant \in AllVariants
  /\ view = "dashboard"
  /\ missions = <<>>
  /\ editingMission = <<>>
  /\ lists = DEFAULT_LISTS(variant)
  /\ dbMissions \in StoredMissions(variant)
  /\ dbSettings \in StoredLists(variant)
  /\ tx = <<>>
  /\ formData = NoDraft
  /\ step = 1
  /\ task = [ IdleTask EXCEPT !.op = "load", !.pc = "toArray" ]
  /\ settingsQ = <<>>
  /\ download = <<>>
  /\ searchTerm = <<>>
  /\ worker = WorkerStart("sw.js")
  /\ pad = NewPad
  /\ msg = ""

\* loadData: await db.missions.toArray() settles, then setMissions; a
\* rejection goes to the catch, which writes to the console only
LoadMissions(fail) ==
  /\ variant # "appB"
  /\ task.op = "load" /\ task.pc = "toArray"
  /\ IF fail
     THEN task' = Ended(task, "failed") /\ UNCHANGED missions
     ELSE task' = [ task EXCEPT !.pc = "get" ] /\ missions' = TableToArray(dbMissions)
  /\ UNCHANGED <<variant, worker, pad, download, searchTerm, view,
                 editingMission, lists, dbMissions, dbSettings, tx, formData,
                 step, settingsQ, msg>>

\* loadData: await db.settings.get('customLists') settles, then setLists
LoadLists(fail) ==
  /\ task.op = "load" /\ task.pc = "get"
  /\ IF fail
     THEN task' = Ended(task, "failed") /\ UNCHANGED lists
     ELSE /\ task' = Ended(task, "done")
          /\ lists' = IF dbSettings = <<>> THEN lists
                      ELSE LoadedLists(variant, dbSettings[1])
  /\ UNCHANGED <<variant, worker, pad, download, searchTerm, view, missions,
                 editingMission, dbMissions, dbSettings, tx, formData, step,
                 settingsQ, msg>>

\* localStorage variant: the load effect reads both items and sets the state;
\* the save effect then writes the state back
LoadLocal ==
  /\ variant = "appB"
  /\ task.op = "load" /\ task.pc = "toArray"
  /\ missions' = dbMissions
  /\ lists' = IF dbSettings = <<>> THEN lists ELSE dbSettings[1]
  /\ dbSettings' = << lists' >>
  /\ task' = Ended(task, "done")
  /\ UNCHANGED <<variant, worker, pad, download, searchTerm, view,
                 editingMission, dbMissions, tx, formData, step, settingsQ,
                 msg>>

\* prev.filter(m => m.id !== id)
RECURSIVE FilterOutId(_, _)
FilterOutId(seq, id) ==
  IF seq = <<>> THEN <<>>
  ELSE IF Head(seq).id = id THEN FilterOutId(Tail(seq), id)
       ELSE <<Head(seq)>> \o FilterOutId(Tail(seq), id)

\* localStorage variant: handleDeleteMission, then the save effect
DeleteLocal(i, answer) ==
  /\ variant = "appB"
  /\ view = "dashboard" /\ Idle
  /\ i \in 1..Len(missions)
  /\ msg' = ""
  /\ IF Confirmed(answer)
     THEN /\ missions' = FilterOutId(missions, missions[i].id)
          /\ dbMissions' = missions'
          /\ task' = [ IdleTask EXCEPT !.op = "delete", !.pc = "done",
                                       !.id = missions[i].id, !.confirmed = answer ]
     ELSE /\ task' = [ IdleTask EXCEPT !.op = "delete", !.pc = "declined" ]
          /\ UNCHANGED <<missions, dbMissions>>
  /\ UNCHANGED <<variant, worker, pad, download, searchTerm, view,
                 editingMission, lists, dbSettings, tx, formData, step,
                 settingsQ>>

NextStored ==
  \/ \E fail \in BOOLEAN : LoadMissions(fail)
  \/ \E fail \in BOOLEAN : LoadLists(fail)
  \/ LoadLocal
  \/ \E i \in 1..MaxDocLen, answer \in BOOLEAN : DeleteMission(i, answer)
  \/ \E fail \in BOOLEAN : DeletePut(fail)
  \/ \E fail \in BOOLEAN : DeleteRead(fail)
  \/ \E i \in 1..MaxDocLen, answer \in BOOLEAN : DeleteLocal(i, answer)

SpecStored == InitStored /\ [][NextStored]_vars

----------------------------------------------------------------------------
(* The lists specification: a fresh installation, the pickers of step 1,    *)
(* saves, and restarts of the application                                   *)

\* the picker a variant renders for a list: <<form key, list key>>
Picker(v) == IF v = "appB" THEN <<"payload", "payload">> ELSE <<"pilot", "pilots">>

\* what the user selects or types into the picker, and what they type into
\* the prompt of the Add button
PickerInputs(v) == IF v = "appB" THEN {"Thermal", "Sonar"} ELSE {"Officer Jones", "Pilot X"}

\* getListProps / listHandler onDelete(val): the delete button is rendered
\* while the value is one of the options
PickerDelete(formKey, listKey, answer) ==
  /\ view = "form" /\ Idle
  /\ step = 1
  /\ formData[formKey] # ""
  /\ listKey \in DOMAIN lists /\ Includes(lists[listKey], formData[formKey])
  /\ msg' = ""
  /\ task' = [ Did("onDelete", listKey) EXCEPT !.confirmed = answer ]
  /\ IF Confirmed(answer)
     THEN /\ lists' = handleUpdateList(lists, listKey, formData[formKey], "del")
          /\ formData' = update(variant, formData, formKey, "")
          /\ IF variant = "appB"
             THEN dbSettings' = << lists' >> /\ UNCHANGED settingsQ
             ELSE settingsQ' = Append(settingsQ, lists') /\ UNCHANGED dbSettings
     ELSE UNCHANGED <<lists, formData, dbSettings, settingsQ>>
  /\ UNCHANGED <<variant, worker, pad, download, searchTerm, view, missions,
                 editingMission, dbMissions, tx, step>>

\* localStorage variant: listHandler onAdd, v what window.prompt returns (""
\* when the prompt is cancelled), then the save effect
PickerAdd(key, v) ==
  /\ variant = "appB"
  /\ view = "form" /\ Idle
  /\ step = 1
  /\ msg' = ""
  /\ task' = [ Did("onAdd", key) EXCEPT !.arg = <<v>> ]
  /\ IF v # ""
     THEN /\ lists' = handleUpdateList(lists, key, v, "add")
          /\ formData' = update(variant, formData, key, v)
          /\ dbSettings' = << lists' >>
     ELSE UNCHANGED <<lists, formData, dbSettings>>
  /\ UNCHANGED <<variant, worker, pad, download, searchTerm, view, missions,
                 editingMission, dbMissions, tx, step, settingsQ>>

\* the page is closed and opened again: the state in memory gets its initial
\* values, the stores keep what they hold
Restart ==
  /\ Idle
  /\ view' = "dashboard"
  /\ missions' = <<>>
  /\ editingMission' = <<>>
  /\ lists' = DEFAULT_LISTS(variant)
  /\ formData' = NoDraft
  /\ step' = 1
  /\ msg' = ""
  /\ task' = [ IdleTask EXCEPT !.op = "load", !.pc = "toArray" ]
  /\ UNCHANGED <<variant, worker, pad, download, searchTerm, dbMissions,
                 dbSettings, tx, settingsQ>>

InitLists ==
  /\ InitStored
  /\ dbMissions = IF variant = "appB" THEN <<>> ELSE EmptyTable
  /\ dbSettings = <<>>

NextLists ==
  \/ LoadMissions(FALSE)
  \/ LoadLists(FALSE)
  \/ LoadLocal
  \/ Restart
  \/ CreateNew(<<1, 9, 0>>)
  \/ \E i \in 1..MaxDocLen : EditStart(i)
  \/ Cancel
  \/ NextStep
  \/ BackStep
  \/ \E v \in PickerInputs(variant) : Update(Picker(variant)[1], v)
  \/ Update("location", "Site A")
  \/ \E answer \in BOOLEAN : PickerDelete(Picker(variant)[1], Picker(variant)[2], answer)
  \/ \E v \in PickerInputs(variant) \cup {""} : PickerAdd(Picker(variant)[2], v)
  \/ variant # "appB" /\ SaveMission(MaxId, MaxClock)
  \/ SavePut(FALSE)
  \/ SaveRead(FALSE)
  \/ SettingsSettle(FALSE)

SpecLists == InitLists /\ [][NextLists]_vars

----------------------------------------------------------------------------
(* CSV export *)

\* A text is a sequence of characters.  The three characters the export
\* treats specially are single elements; a run of other characters is written
\* as one element.  An absent field (undefined) is the empty text: String
\* conversion, `|| ''` and Array.join all render it as ''.
COMMA == ","
QUOTE == "\""
NEWLINE == "\n"

\* longest description typed into a record
MaxTextLen == 2
\* most records in memory when the export button is pressed
MaxExportRows == 2
\* most files downloaded in one session
MaxFiles == 1

ExportVariants == {"part000", "main"}

\* stringValue.includes(c)
HasChar(text, c) == \E i \in 1..Len(text) : text[i] = c

\* stringValue.replace(/"/g, '""')
RECURSIVE DoubleQuotes(_)
DoubleQuotes(text) ==
  IF text = <<>> THEN <<>>
  ELSE (IF Head(text) = QUOTE THEN <<QUOTE, QUOTE>> ELSE <<Head(text)>>)
         \o DoubleQuotes(Tail(text))

\* exportToCSV of part_000: escapeCSV(str)
escapeCSV(text) ==
  IF HasChar(text, COMMA) \/ HasChar(text, QUOTE) \/ HasChar(text, NEWLINE)
  THEN <<QUOTE>> \o DoubleQuotes(text) \o <<QUOTE>>
  ELSE text

\* array.join(sep)
RECURSIVE Join(_, _)
Join(texts, sep) ==
  IF texts = <<>> THEN <<>>
  ELSE IF Len(texts) = 1 THEN texts[1]
  ELSE texts[1] \o sep \o Join(Tail(texts), sep)

\* formatDateTime24h(isoString)
formatDateTime24h(t) ==
  IF t = <<>> THEN <<"---">>
  ELSE << "2026-01-", ToString(t[1]), " ", ToString(t[2]), ":", ToString(t[3]) >>

\* the keys of a risk object in the order of the risk table
RECURSIVE RiskKeys(_, _)
RiskKeys(risks, i) ==
  IF i > Len(RISK_ITEMS) THEN <<>>
  ELSE (IF RISK_ITEMS[i] \in DOMAIN risks THEN <<RISK_ITEMS[i]>> ELSE <<>>)
         \o RiskKeys(risks, i + 1)

\* entries.filter(([_, val]) => val && val.checked)
CheckedKeys(risks) == SelectSeq(RiskKeys(risks, 1), LAMBDA h : risks[h].checked)

\* val.level || '-'
LevelOrDash(val) == IF val.level = "" THEN "-" ELSE val.level

\* exportToCSV: formatRisks(risks)
formatRisks(v, risks) ==
  LET keys == CheckedKeys(risks)
      entry(h) ==
        IF v = "part000"
        THEN << h, " [", LevelOrDash(risks[h]), "]" >>
               \o (IF risks[h].mitigation # <<>>
                   THEN <<" (Mitigation: ">> \o risks[h].mitigation \o <<")">>
                   ELSE <<>>)
        ELSE << h, " (", LevelOrDash(risks[h]), "): " >> \o risks[h].mitigation
  IN  IF DOMAIN risks = {} THEN <<"None">>
      ELSE Join([ i \in 1..Len(keys) |-> entry(keys[i]) ], <<" | ">>)

\* exportToCSV: headers
headers(v) ==
  IF v = "part000"
  THEN << <<"Mission ID">>, <<"Start Time">>, <<"End Time">>, <<"Location">>,
          <<"Lat">>, <<"Lng">>, <<"Pilot">>, <<"RPAS Model/Reg">>, <<"Observer">>,
          <<"Payload">>, <<"Op Category">>, <<"Mission Type">>, <<"Flights">>,
          <<"Airspace Class">>, <<"Airspace Type">>, <<"Aerodromes">>,
          <<"Proximity">>, <<"NOTAMS">>, <<"NavCan Ref">>, <<"Temp (C)">>,
          <<"Wind Speed (km/h)">>, <<"Wind Dir">>, <<"Visibility (km)">>,
          <<"Weather Notes">>, <<"Approach Alt">>, <<"Approach Route">>,
          <<"Emergency Site">>, <<"Description">>, <<"Risk Summary">> >>
  ELSE << <<"Mission ID">>, <<"Start Time">>, <<"End Time">>, <<"Location">>,
          <<"Lat">>, <<"Lng">>, <<"Pilot">>, <<"RPAS Model/Reg">>,
          <<"Operation Category">>, <<"Observer">>, <<"Payload">>,
          <<"Mission Type">>, <<"Flights">>, <<"Airspace Class">>,
          <<"Airspace Type">>, <<"Aerodromes">>, <<"Proximity">>, <<"NOTAMS">>,
          <<"NavCan Ref">>, <<"Temp (C)">>, <<"Wind Speed (km/h)">>, <<"Wind Dir">>,
          <<"Visibility (km)">>, <<"Weather Notes">>, <<"Approach Alt">>,
          <<"Approach Route">>, <<"Emergency Site">>, <<"Description">>,
          <<"Risk Summary">> >>

\* m[k] as text, '' when the record has no such field
Field(m, k) == IF k \in DOMAIN m THEN m[k] ELSE <<>>

\* exportToCSV: the values of the row of m, in the order of the columns
Cells(v, m) ==
  LET observer == Field(m, "observer")
      payload == Field(m, "payload")
      opCategory == Field(m, "opCategory")
  IN  << <<ToString(m.id)>>, formatDateTime24h(m.start), formatDateTime24h(m.end),
         Field(m, "location"), Field(m, "lat"), Field(m, "lng"), Field(m, "pilot"),
         Field(m, "rpas") >>
      \o (IF v = "part000" THEN <<observer, payload, opCategory>>
          ELSE <<opCategory, observer, payload>>)
      \o << Field(m, "type"), <<"1">>, Field(m, "airspace"),
            Field(m, "airspaceType"), Field(m, "aerodromes"), Field(m, "proximity"),
            Field(m, "notams"), Field(m, "navCanRef"), Field(m, "temperature"),
            Field(m, "windSpeed"), Field(m, "windDir"), Field(m, "visibility"),
            Field(m, "weatherText"), Field(m, "approachAlt"),
            Field(m, "approachRoute"), Field(m, "emergencySite"),
            Field(m, "description"), formatRisks(v, m.risks) >>

\* main.jsx: the columns whose value is put between double quotes as it is
QuotedColumns == {4, 7, 8, 9, 10, 11, 12, 14, 15, 16, 17, 18, 19, 22, 24, 26, 27, 28, 29}

\* exportToCSV: the line of one record
Row(v, m) ==
  LET cells == Cells(v, m)
  IN  Join([ i \in 1..Len(cells) |->
               IF v = "part000" THEN escapeCSV(cells[i])
               ELSE IF i \in QuotedColumns THEN <<QUOTE>> \o cells[i] \o <<QUOTE>>
               ELSE cells[i] ],
           <<COMMA>>)

\* exportToCSV: csvContent
csvContent(v, ms) ==
  Join(<< Join(headers(v), <<COMMA>>) >> \o [ i \in 1..Len(ms) |-> Row(v, ms[i]) ],
       <<NEWLINE>>)

\* Dashboard onExport: exportToCSV(missions)
Export ==
  /\ view = "dashboard" /\ Idle
  /\ Len(download) < MaxFiles
  /\ task' = Did("exportToCSV", "")
  /\ IF Len(missions) = 0
     THEN msg' = "No missions to export." /\ UNCHANGED download
     ELSE /\ download' = Append(download,
                           [ name |-> "dfo_mission_log.csv", bom |-> variant = "part000",
                             content |-> csvContent(variant, missions) ])
          /\ msg' = ""
  /\ UNCHANGED <<variant, worker, pad, searchTerm, view, missions,
                 editingMission, lists, dbMissions, dbSettings, tx, formData,
                 step, settingsQ>>

\* a reader of RFC 4180 text, one character at a time.  mode is "start" (at
\* the start of a field), "plain", "quoted", or "closing" (a quote was read
\* inside a quoted field); field and row are what has been read of the
\* current field and row, rows the rows completed
ReadChar(st, c) ==
  IF st.mode = "quoted"
  THEN IF c = QUOTE THEN [ st EXCEPT !.mode = "closing" ]
       ELSE [ st EXCEPT !.field = Append(@, c) ]
  ELSE IF st.mode = "closing" /\ c = QUOTE
  THEN [ st EXCEPT !.mode = "quoted", !.field = Append(@, QUOTE) ]
  ELSE IF c = COMMA
  THEN [ st EXCEPT !.mode = "start", !.field = <<>>, !.row = Append(@, st.field) ]
  ELSE IF c = NEWLINE
  THEN [ mode |-> "start", field |-> <<>>, row |-> <<>>,
         rows |-> Append(st.rows, Append(st.row, st.field)) ]
  ELSE IF st.mode = "start" /\ c = QUOTE
  THEN [ st EXCEPT !.mode = "quoted" ]
  ELSE [ st EXCEPT !.mode = "plain", !.field = Append(@, c) ]

\* the reader's state after the characters lo..hi of text, read from state
\* st; st is evaluated before the characters are read
RECURSIVE ReadCSV(_, _, _, _)
ReadCSV(text, lo, hi, st) ==
  IF st.mode = "end" \/ lo > hi THEN st
  ELSE IF lo = hi THEN ReadChar(st, text[lo])
  ELSE LET mid == (lo + hi) \div 2
           half == ReadCSV(text, lo, mid, st)
       IN  ReadCSV(text, mid + 1, hi, half)

\* the rows of fields the reader recovers from a file
ParseCSV(text) ==
  LET st == ReadCSV(text, 1, Len(text),
                    [ mode |-> "start", field |-> <<>>, row |-> <<>>, rows |-> <<>> ])
  IN  Append(st.rows, Append(st.row, st.field))

\* the texts of at most n characters
RECURSIVE Texts(_)
Texts(n) ==
  IF n = 0 THEN { <<>> }
  ELSE Texts(n - 1)
         \cup { Append(t, c) : t \in { x \in Texts(n - 1) : Len(x) = n - 1 },
                               c \in {"a", COMMA, QUOTE, NEWLINE} }

\* the risk objects of the exported records: no entry, one checked hazard
\* without level and mitigation, one with both, and two checked hazards
ExportRisks ==
  LET bare == [ checked |-> TRUE, level |-> "", desc |-> <<>>, mitigation |-> <<>> ]
      full(mit) == [ checked |-> TRUE, level |-> "Low", desc |-> <<>>, mitigation |-> mit ]
  IN  { NoRisks,
        [ h \in {RISK_ITEMS[1]} |-> bare ],
        [ h \in {RISK_ITEMS[1]} |-> full(<<"Keep clear">>) ],
        [ h \in {RISK_ITEMS[2]} |-> full(<<"Keep ", QUOTE, "clear", QUOTE>>) ],
        [ h \in {RISK_ITEMS[1], RISK_ITEMS[2]} |->
            IF h = RISK_ITEMS[1] THEN bare ELSE full(<<"Keep clear">>) ] }

\* a saved record with the fields the export reads
ExportRecord(id, description, risks) ==
  [ id |-> id, start |-> <<1, 9, 0>>, end |-> <<>>, location |-> <<"Site A">>,
    pilot |-> <<"Officer Smith">>, description |-> description, risks |-> risks ]

\* the arrays in memory: the first record has any description and risks, the
\* ones after it are plain
ExportArrays ==
  { <<>> }
    \cup { << ExportRecord(1, d, r) >>
             \o [ i \in 1..n |-> ExportRecord(i + 1, <<"a">>, NoRisks) ] :
           d \in Texts(MaxTextLen), r \in ExportRisks, n \in 0..(MaxExportRows - 1) }

InitExport ==
  /\ variant \in ExportVariants
  /\ view = "dashboard"
  /\ missions \in ExportArrays
  /\ editingMission = <<>>
  /\ lists = DEFAULT_LISTS(variant)
  /\ dbMissions = EmptyTable
  /\ dbSettings = <<>>
  /\ tx = <<>>
  /\ formData = NoDraft
  /\ step = 1
  /\ task = IdleTask
  /\ settingsQ = <<>>
  /\ download = <<>>
  /\ searchTerm = <<>>
  /\ worker = WorkerStart("sw.js")
  /\ pad = NewPad
  /\ msg = ""

NextExport == Export

SpecExport == InitExport /\ [][NextExport]_vars

----------------------------------------------------------------------------
(* Dashboard listing *)

\* most records in memory when the dashboard is rendered
MaxShown == 2

DashVariants == {"part000", "appA", "appB"}

\* String.prototype.toLowerCase over the letters of the model
toLowerCase(text) ==
  [ i \in 1..Len(text) |->
      CASE text[i] = "A" -> "a" [] text[i] = "B" -> "b" [] OTHER -> text[i] ]

\* String.prototype.includes(term)
includes(text, term) ==
  \E i \in 0..(Len(text) - Len(term)) : SubSeq(text, i + 1, i + Len(term)) = term

\* Array.prototype.sort((a, b) => b[k] - a[k]): descending by k, equal keys
\* keep their order
RECURSIVE InsertDesc(_, _, _)
InsertDesc(sorted, m, k) ==
  IF sorted = <<>> THEN <<m>>
  ELSE IF Head(sorted)[k] >= m[k] THEN <<Head(sorted)>> \o InsertDesc(Tail(sorted), m, k)
  ELSE <<m>> \o sorted

RECURSIVE SortDescBy(_, _)
SortDescBy(seq, k) ==
  IF seq = <<>> THEN <<>>
  ELSE InsertDesc(SortDescBy(SubSeq(seq, 1, Len(seq) - 1), k), seq[Len(seq)], k)

\* Dashboard of part_000: the predicate of missions.filter
FilterMatches(m, term) ==
  \/ m.location # <<>> /\ includes(toLowerCase(m.location), toLowerCase(term))
  \/ m.pilot # <<>> /\ includes(toLowerCase(m.pilot), toLowerCase(term))

\* Dashboard: the records rendered as cards, in the order rendered
filteredMissions(v, ms, term) ==
  IF v = "part000"
  THEN SortDescBy(SelectSeq(ms, LAMBDA m : FilterMatches(m, term)), "start")
  ELSE SortDescBy(ms, "created")

\* Dashboard: the number in "<n> RECORDS"
RecordsCount(v, ms, term) ==
  IF v = "part000" THEN Len(filteredMissions(v, ms, term)) ELSE Len(ms)

\* Dashboard of part_000: the search input changes
Search(term) ==
  /\ variant = "part000"
  /\ view = "dashboard" /\ Idle
  /\ searchTerm' = term
  /\ task' = Did("setSearchTerm", "")
  /\ msg' = ""
  /\ UNCHANGED <<variant, worker, pad, download, missions, editingMission,
                 view, lists, dbMissions, dbSettings, tx, formData, step,
                 settingsQ>>

\* Dashboard of the App.jsx variants: rendering sorts the array of the App
\* state in place
RenderSort ==
  /\ variant \in {"appA", "appB"}
  /\ view = "dashboard" /\ Idle
  /\ missions' = SortDescBy(missions, "created")
  /\ task' = Did("render", "")
  /\ msg' = ""
  /\ UNCHANGED <<variant, worker, pad, download, searchTerm, editingMission,
                 view, lists, dbMissions, dbSettings, tx, formData, step,
                 settingsQ>>

\* the record of id i: location and pilot are texts of single letters, start
\* and created are instants
DashRecords(i) ==
  { [ id |-> i, created |-> c, start |-> s, location |-> l, pilot |-> p ] :
      c \in 1..2, s \in 1..2, l \in { <<>>, <<"a">>, <<"A", "b">> },
      p \in { <<>>, <<"b">> } }

RECURSIVE DashArrays(_)
DashArrays(n) ==
  IF n = 0 THEN { <<>> }
  ELSE DashArrays(n - 1)
         \cup { Append(a, r) : a \in { x \in DashArrays(n - 1) : Len(x) = n - 1 },
                               r \in DashRecords(n) }

SearchTerms == { <<>>, <<"a">>, <<"B">>, <<"c">> }

InitDash ==
  /\ variant \in DashVariants
  /\ view = "dashboard"
  /\ missions \in DashArrays(MaxShown)
  /\ editingMission = <<>>
  /\ lists = DEFAULT_LISTS(variant)
  /\ dbMissions = EmptyTable
  /\ dbSettings = <<>>
  /\ tx = <<>>
  /\ formData = NoDraft
  /\ step = 1
  /\ task = IdleTask
  /\ settingsQ = <<>>
  /\ download = <<>>
  /\ searchTerm = <<>>
  /\ worker = WorkerStart("sw.js")
  /\ pad = NewPad
  /\ msg = ""

NextDash ==
  \/ \E term \in SearchTerms : Search(term)
  \/ RenderSort

SpecDash == InitDash /\ [][NextDash]_vars

----------------------------------------------------------------------------
(* Backup, and the backup specification: the application starts on a        *)
(* persisted store, the user makes a backup, deletes records and restores   *)
(* the backup                                                               *)

\* backupData(missions, lists): the document written to the file.  JSON text
\* of the records and lists of the model parses back to the same values.
\* `persisted` is not in the file: it records the two stores at the moment
\* of the backup
BackupFile(ms, ls) ==
  [ name |-> "dfo_backup.json",
    doc |-> [ missions |-> [ kind |-> "array", items |-> ms ], lists |-> << ls >> ],
    persisted |-> [ missions |-> dbMissions, settings |-> dbSettings ] ]

\* Dashboard onBackup: backupData(missions, lists)
Backup ==
  /\ view = "dashboard" /\ Idle
  /\ Len(download) < MaxFiles
  /\ download' = Append(download, BackupFile(missions, lists))
  /\ task' = Did("backupData", "")
  /\ msg' = ""
  /\ UNCHANGED <<variant, worker, pad, searchTerm, view, missions,
                 editingMission, lists, dbMissions, dbSettings, tx, formData,
                 step, settingsQ>>

\* the user picks the file of the latest backup in the restore input
RestoreBackup(answer) ==
  /\ download # <<>>
  /\ RestoreStart(download[Len(download)].doc, answer)

InitBackup == InitStored /\ variant \in Variants

NextBackup ==
  \/ LoadMissions(FALSE)
  \/ LoadLists(FALSE)
  \/ Backup
  \/ \E i \in 1..MaxDocLen : DeleteMission(i, TRUE)
  \/ DeletePut(FALSE)
  \/ DeleteRead(FALSE)
  \/ \E answer \in BOOLEAN : RestoreBackup(answer)
  \/ RestoreClear(FALSE)
  \/ RestoreBulkPut("ok")
  \/ RestoreSettings(FALSE)
  \/ RestoreCommit
  \/ RestoreRead(FALSE)

SpecBackup == InitBackup /\ [][NextBackup]_vars

-----------------------------------------------------------------------------
(* The service worker: src/sw.js and its other version, part_001 *)

MaxVersion == 2

WorkerScripts == {"sw.js", "part_001"}

\* a request the page makes: its URL, its mode, whether it is same-origin
Requests ==
  [ url : WorkerUrls, mode : {"navigate", "no-cors"}, sameOrigin : BOOLEAN ]

\* the response handed to the page: where it came from and its version;
\* "error" is respondWith settling with undefined or with a rejection
Response(req, from, version) ==
  << [ url |-> req.url, mode |-> req.mode, sameOrigin |-> req.sameOrigin,
       from |-> from, version |-> version ] >>

\* the catch of the navigation branch. sw.js: caches.match('/index.html') ||
\* caches.match('/') -- caches.match returns a promise, which is truthy, so
\* the right operand is never evaluated and the requested URL is never
\* looked up. part_001: caches.match(event.request)
navigateFallback(script, cache, url) ==
  IF script = "sw.js" THEN cache["/index.html"] ELSE cache[url]

\* navigation branch: fetch; then cache.put and the network response;
\* catch: the fallback
navigate(w, req) ==
  IF w.online
    THEN [ w EXCEPT !.cache[req.url] = w.server,
                    !.served = Response(req, "network", w.server) ]
    ELSE LET v == navigateFallback(w.script, w.cache, req.url)
         IN  [ w EXCEPT !.served =
                 Response(req, IF v = 0 THEN "error" ELSE "cache", v) ]

\* asset branch. sw.js: the cached response if there is one, else fetch and
\* cache.put. part_001: the fetch is always started and, when it succeeds,
\* replaces the cached copy; the answer is the cached response if there was
\* one, else the fetch's
asset(w, req) ==
  LET v == w.cache[req.url]
      fetched == [ w EXCEPT !.cache[req.url] = w.server ]
  IN  IF w.script = "sw.js"
        THEN IF v # 0 THEN [ w EXCEPT !.served = Response(req, "cache", v) ]
             ELSE IF w.online
               THEN [ fetched EXCEPT !.served = Response(req, "network", w.server) ]
               ELSE [ w EXCEPT !.served = Response(req, "error", 0) ]
        ELSE LET after == IF w.online THEN fetched ELSE w
             IN  IF v # 0 THEN [ after EXCEPT !.served = Response(req, "cache", v) ]
                 ELSE IF w.online
                   THEN [ after EXCEPT !.served = Response(req, "network", w.server) ]
                   ELSE [ after EXCEPT !.served = Response(req, "error", 0) ]

\* the fetch listener: a cross-origin request is left to the browser (the
\* listener returns without respondWith), a navigation goes to the
\* navigation branch, anything else to the asset branch
WorkerFetch(req) ==
  /\ worker' =
       IF ~req.sameOrigin
         THEN [ worker EXCEPT !.served =
                  Response(req, IF worker.online THEN "browser" ELSE "error",
                           IF worker.online THEN worker.server ELSE 0) ]
       ELSE IF req.mode = "navigate" THEN navigate(worker, req)
       ELSE asset(worker, req)
  /\ UNCHANGED <<variant, pad, view, missions, editingMission, lists,
                 dbMissions, dbSettings, tx, formData, step, task, settingsQ,
                 download, searchTerm, msg>>

\* the device loses or regains its connection
Connectivity ==
  /\ worker' = [ worker EXCEPT !.online = ~worker.online ]
  /\ UNCHANGED <<variant, pad, view, missions, editingMission, lists,
                 dbMissions, dbSettings, tx, formData, step, task, settingsQ,
                 download, searchTerm, msg>>

\* a new build of the site is published: the server's responses change
Deploy ==
  /\ worker.server < MaxVersion
  /\ worker' = [ worker EXCEPT !.server = worker.server + 1 ]
  /\ UNCHANGED <<variant, pad, view, missions, editingMission, lists,
                 dbMissions, dbSettings, tx, formData, step, task, settingsQ,
                 download, searchTerm, msg>>

InitWorker ==
  /\ variant = "main"
  /\ view = "dashboard"
  /\ missions = <<>>
  /\ editingMission = <<>>
  /\ lists = DEFAULT_LISTS(variant)
  /\ dbMissions = EmptyTable
  /\ dbSettings = <<>>
  /\ tx = <<>>
  /\ formData = NoDraft
  /\ step = 1
  /\ task = IdleTask
  /\ settingsQ = <<>>
  /\ download = <<>>
  /\ searchTerm = <<>>
  /\ worker \in { WorkerStart(script) : script \in WorkerScripts }
  /\ pad = NewPad
  /\ msg = ""

NextWorker ==
  \/ \E req \in Requests : WorkerFetch(req)
  \/ Connectivity
  \/ Deploy

SpecWorker == InitWorker /\ [][NextWorker]_vars

-----------------------------------------------------------------------------
(* The sketch pad of the form *)

MaxSegments == 2
MaxStrokes == 2

\* the step whose section renders <SketchPad>
SketchStep(v) == IF v \in {"appA", "appB"} THEN 1 ELSE 2

PadShown == view = "form" /\ Idle /\ step = SketchStep(variant)

\* startDraw: setIsDrawing(true); beginPath; moveTo
startDraw(p) == [ p EXCEPT !.isDrawing = TRUE ]

\* draw: if (!isDrawing) return; lineTo; stroke
draw(p) == IF ~p.isDrawing THEN p ELSE [ p EXCEPT !.raster = @ + 1 ]

stopDraw_always(p) == [ p EXCEPT !.isDrawing = FALSE, !.emitted = @ + 1 ]

\* stopDraw: if (isDrawing) { setIsDrawing(false); onSave(canvas.toDataURL()) }
stopDraw(p) ==
  IF p.isDrawing THEN [ p EXCEPT !.isDrawing = FALSE, !.emitted = @ + 1 ] ELSE p

\* canvas.toDataURL(): the raster as it is at the call
toDataURL(p) == << p.raster >>

\* onMouseDown / onTouchStart
PadDown ==
  /\ PadShown
  /\ pad.emitted < MaxStrokes
  /\ pad' = [ startDraw(pad) EXCEPT !.event = "down" ]
  /\ UNCHANGED <<variant, worker, view, missions, editingMission, lists,
                 dbMissions, dbSettings, tx, formData, step, task, settingsQ,
                 download, searchTerm, msg>>

\* onMouseMove / onTouchMove
PadMove ==
  /\ PadShown
  /\ pad.raster < MaxSegments
  /\ pad' = [ draw(pad) EXCEPT !.event = "move" ]
  /\ UNCHANGED <<variant, worker, view, missions, editingMission, lists,
                 dbMissions, dbSettings, tx, formData, step, task, settingsQ,
                 download, searchTerm, msg>>

\* onMouseUp / onTouchEnd ("up") and onMouseLeave ("leave"): stopDraw, whose
\* onSave is (data) => update('sketch', data)
PadStop(event) ==
  /\ PadShown
  /\ pad' = [ stopDraw(pad) EXCEPT !.event = event ]
  /\ formData' = IF pad'.emitted # pad.emitted
                   THEN update(variant, formData, "sketch", toDataURL(pad))
                   ELSE formData
  /\ UNCHANGED <<variant, worker, view, missions, editingMission, lists,
                 dbMissions, dbSettings, tx, step, task, settingsQ, download,
                 searchTerm, msg>>

\* CLEAR: the canvas is filled white, onSave(null)
clearCanvas ==
  /\ PadShown
  /\ pad' = [ pad EXCEPT !.raster = 0, !.event = "clear" ]
  /\ formData' = update(variant, formData, "sketch", <<>>)
  /\ UNCHANGED <<variant, worker, view, missions, editingMission, lists,
                 dbMissions, dbSettings, tx, step, task, settingsQ, download,
                 searchTerm, msg>>

NextSketch ==
  \/ CreateNew(FormNow)
  \/ Cancel
  \/ NextStep
  \/ BackStep
  \/ PadDown
  \/ PadMove
  \/ \E event \in {"up", "leave"} : PadStop(event)
  \/ clearCanvas

SpecSketch == Init /\ [][NextSketch]_vars

-----------------------------------------------------------------------------
(* The multi-value picker of the aerodromes *)

MaxPicked == 3

\* the variants whose form renders DynamicSelect with multiple
PickerVariants == {"part000", "main"}

\* what is typed before Enter: nothing, an option of the built-in list, a new
\* text
AerodromeInputs == {"", "Moncton (CYQM) - 120.8", "Heliport"}

onKeyDown_always(value, val) == IF val = "" THEN value ELSE Append(value, val)

\* DynamicSelect (multiple), onKeyDown with Enter: if (val) { if
\* (!current.includes(val)) onChange([...current, val]) }
onKeyDown(value, val) ==
  IF val = "" \/ Includes(value, val) THEN value ELSE Append(value, val)

\* Enter in the input of the aerodromes picker; onChange is
\* (val) => update('aerodromes', val)
AerodromeEnter(val) ==
  /\ variant \in PickerVariants
  /\ view = "form" /\ Idle
  /\ step = 1
  /\ Len(formData.aerodromes) < MaxPicked
  /\ formData' = update(variant, formData, "aerodromes",
                        onKeyDown(formData.aerodromes, val))
  /\ msg' = ""
  /\ task' = [ Did("onKeyDown", "aerodromes") EXCEPT !.arg = <<val>> ]
  /\ UNCHANGED <<variant, worker, pad, download, searchTerm, view, missions,
                 editingMission, lists, dbMissions, dbSettings, tx, step,
                 settingsQ>>

\* the bin of the i-th chip: onChange(value.filter(i => i !== v))
AerodromeRemove(i) ==
  /\ variant \in PickerVariants
  /\ view = "form" /\ Idle
  /\ step = 1
  /\ i \in 1..Len(formData.aerodromes)
  /\ formData' = update(variant, formData, "aerodromes",
                        Without(formData.aerodromes, formData.aerodromes[i]))
  /\ msg' = ""
  /\ task' = [ Did("onChange", "aerodromes") EXCEPT !.arg = <<formData.aerodromes[i]>> ]
  /\ UNCHANGED <<variant, worker, pad, download, searchTerm, view, missions,
                 editingMission, lists, dbMissions, dbSettings, tx, step,
                 settingsQ>>

NextAerodromes ==
  \/ CreateNew(FormNow)
  \/ EditStart(1)
  \/ Cancel
  \/ NextStep
  \/ BackStep
  \/ \E kv \in DraftInputs \ {<<"location", "">>, <<"pilot", "">>} :
       Update(kv[1], kv[2])
  \/ \E val \in AerodromeInputs : AerodromeEnter(val)
  \/ \E i \in 1..MaxPicked : AerodromeRemove(i)
  \/ SaveMission(MaxId, MaxClock)
  \/ SavePut(FALSE)
  \/ SaveRead(FALSE)
  \/ SettingsSettle(FALSE)

SpecAerodromes == Init /\ [][NextAerodromes]_vars

-----------------------------------------------------------------------------
(* The reload specification: a restore, then the page is opened again *)

\* backup documents: at most one record; the lists value is absent, a store
\* as this variant writes it, or the five-list store that the backup of
\* GULF RPAS GEM/GULF RPAS GEM/src/App.jsx writes (same file format)
ReloadDocs(v) ==
  { [ missions |-> [ kind |-> "array", items |-> a ], lists |-> l ] :
      a \in DocArrays(1), l \in DocLists(v) \cup { << DEFAULT_LISTS_appA >> } }

NextReload ==
  \/ \E doc \in ReloadDocs(variant), answer \in BOOLEAN : RestoreStart(doc, answer)
  \/ RestoreClear(FALSE)
  \/ RestoreBulkPut("ok")
  \/ RestoreSettings(FALSE)
  \/ RestoreCommit
  \/ RestoreRead(FALSE)
  \/ Restart
  \/ LoadMissions(FALSE)
  \/ LoadLists(FALSE)

SpecReload == Init /\ [][NextReload]_vars

-----------------------------------------------------------------------------
(* The cancel specification: drafts that are edited and then abandoned *)

\* handleCoordChange(field, value): setCoords(prev => ({ ...prev, [field]: value }))
handleCoordChange(prev, field, value) == [ prev EXCEPT ![field] = value ]

\* a coordinate input of step 1 changes; saveMission puts coords into the
\* mission next to the fields of formData
CoordChange(field, value) ==
  /\ view = "form" /\ Idle
  /\ step = 1
  /\ formData' = [ formData EXCEPT
                     !.coords = handleCoordChange(formData.coords, field, value) ]
  /\ msg' = ""
  /\ task' = [ Did("handleCoordChange", field) EXCEPT !.arg = <<value>> ]
  /\ UNCHANGED <<variant, worker, pad, download, searchTerm, view, missions,
                 editingMission, lists, dbMissions, dbSettings, tx, step,
                 settingsQ>>

CancelInputs == { <<"location", "Site A">>, <<"location", "Site B">>,
                  <<"pilot", "Officer Smith">> }

CoordInputs == { <<"lat", "45.96">>, <<"lng", "-66.64">>, <<"lat", "">> }

CancelRiskInputs == { <<"checked", TRUE>>, <<"checked", FALSE>>, <<"level", "High">> }

NextCancel ==
  \/ CreateNew(FormNow)
  \/ EditStart(1)
  \/ Cancel
  \/ NextStep
  \/ BackStep
  \/ \E kv \in CancelInputs : Update(kv[1], kv[2])
  \/ \E fv \in CoordInputs : CoordChange(fv[1], fv[2])
  \/ \E fv \in CancelRiskInputs : RiskChange(RISK_ITEMS[1], fv[1], fv[2])
  \/ SaveMission(MaxId, MaxClock)
  \/ SavePut(FALSE)
  \/ SaveRead(FALSE)
  \/ SettingsSettle(FALSE)

SpecCancel == Init /\ [][NextCancel]_vars

----------------------------------------------------------------------------
(* Properties of restore *)

RestoreInFlight == task.op = "restore" /\ task.pc \notin TerminalPcs

\* the records of the document a restore in flight was started with
RestoreItems == task.doc[1].missions.items

\* C1: a confirmed restore that runs to its end with no persistence request
\* failing leaves in the mission table, and in the refreshed in-memory array,
\* exactly the records of the document's missions array, whatever the table
\* held before; the lists in memory and the stored lists become the document's
\* lists when it has them, and no step of a restore whose document has no lists
\* changes either of them.
C1_RestoreReplaces ==
  [][ /\ ( /\ task.op = "restore" /\ task.pc = "toArray" /\ task'.pc = "done"
           /\ task.confirmed /\ ~task.ioError )
         => /\ DOMAIN dbMissions' = { RestoreItems[i].id : i \in 1..Len(RestoreItems) }
            /\ \A i \in 1..Len(RestoreItems) :
                 dbMissions'[RestoreItems[i].id] = RestoreItems[i]
            /\ Len(missions') = Len(RestoreItems)
            /\ \A i \in 1..Len(RestoreItems) :
                 \E j \in 1..Len(missions') : missions'[j] = RestoreItems[i]
            /\ task.doc[1].lists # <<>>
                 => lists' = task.doc[1].lists[1] /\ dbSettings' = task.doc[1].lists
      /\ (RestoreInFlight /\ task.doc[1].lists = <<>>)
         => lists' = lists /\ dbSettings' = dbSettings
    ]_vars

\* the table holds the document's one record while the array in memory still
\* shows the two records of before, neither of which the table holds
C1_Witness ==
  /\ task.op = "restore" /\ task.pc = "toArray" /\ task.confirmed /\ ~task.ioError
  /\ Len(RestoreItems) = 1
  /\ DOMAIN dbMissions = { RestoreItems[1].id }
  /\ Len(missions) = 2
  /\ \A i \in 1..Len(missions) : missions[i] # RestoreItems[1]

\* C2: a restore of a document whose missions field is absent or not an array
\* changes nothing (mission table, settings table, in-memory missions and
\* lists) and, unless the user dismissed a dialog, ends with a message.
C2_BadShapeChangesNothing ==
  [][ (task'.op = "restore" /\ task'.key \in BadKinds)
        => /\ UNCHANGED <<dbMissions, dbSettings, missions, lists>>
           /\ task'.pc \in (TerminalPcs \ {"declined"}) => msg' # ""
    ]_vars

\* C9: in the variant whose restore runs in a transaction, no step taken while
\* the restore is at its clear, its bulk insert or its settings write changes
\* the mission table or the settings table, and a step that ends the restore
\* in failure there changes neither the in-memory lists nor the in-memory
\* missions.
C9_TransactionAllOrNothing ==
  [][ ( /\ variant = "part000" /\ task.op = "restore"
        /\ task.pc \in {"clear", "bulkPut", "settings"} )
        => /\ UNCHANGED <<dbMissions, dbSettings, missions>>
           /\ task.pc # "settings" => UNCHANGED lists
           /\ task'.pc = "failed" => UNCHANGED lists /\ msg' # ""
    ]_vars

\* the transaction has cleared its view of the mission table and the bulk
\* insert is about to fail or succeed, while the table itself still holds records
C9_Witness ==
  /\ variant = "part000" /\ task.op = "restore" /\ task.pc = "bulkPut"
  /\ tx # <<>> /\ tx[1].missions = EmptyTable
  /\ dbMissions # EmptyTable
  /\ RestoreItems # <<>>

\* C10: a step that changes the mission table or the settings table belongs to
\* a restore whose dialog the user answered with OK, and the step in which the
\* user declines changes neither table nor the in-memory missions and lists.
C10_NoWriteWithoutConfirm ==
  [][ /\ (dbMissions' # dbMissions \/ dbSettings' # dbSettings)
         => task.op = "restore" /\ task.confirmed
      /\ (task'.op = "restore" /\ task'.pc = "declined")
         => UNCHANGED <<dbMissions, dbSettings, missions, lists>>
    ]_vars

\* the user has declined a restore while the table holds records
C10_Witness ==
  /\ task.op = "restore" /\ task.pc = "declined" /\ ~task.confirmed
  /\ dbMissions # EmptyTable /\ missions # <<>>

----------------------------------------------------------------------------
(* Properties of the form *)

\* C3: a saveMission on a draft whose location or pilot is empty shows a
\* message and hands no record to the persistence adapter; the suggestion
\* lists, the settings writes in flight, the draft, the step, the view, the
\* tables and the in-memory missions are as before.
C3_InvalidSaveChangesNothing ==
  [][ ( /\ view = "form" /\ task.pc \in TerminalPcs /\ settingsQ = <<>>
        /\ task'.op = "save"
        /\ (formData.location = "" \/ formData.pilot = "") )
        => /\ msg' # ""
           /\ task'.pc = "invalid" /\ task'.mission = <<>>
           /\ UNCHANGED <<lists, settingsQ, formData, step, view, editingMission,
                          dbMissions, dbSettings, missions>>
    ]_vars

\* a save was refused on the last step for a draft that has a location and a
\* checked hazard but no pilot
C3_Witness ==
  /\ task.op = "save" /\ task.pc = "invalid" /\ msg # ""
  /\ view = "form" /\ step = LastStep(variant)
  /\ formData.location # "" /\ formData.pilot = ""
  /\ DOMAIN formData.risks # {}

\* the records the program holds: the draft, the record handed to onSave, the
\* rows of the table and the entries of the in-memory array
HeldRecords ==
  {formData} \cup { task.mission[i] : i \in 1..Len(task.mission) }
             \cup { dbMissions[i] : i \in DOMAIN dbMissions }
             \cup { missions[i] : i \in 1..Len(missions) }

\* C7: in the draft and in every record saved from it, every key of risks has
\* an entry with checked = true (a hazard that is not checked has no key), and
\* the call that unchecks a hazard leaves risks without its key and other
\* hazards' entries as they were.
C7_RiskKeyIffChecked ==
  [][ /\ \A r \in HeldRecords' : \A h \in DOMAIN r.risks : r.risks[h].checked = TRUE
      /\ ( /\ task'.op = "handleRiskChange" /\ task'.key = "checked"
           /\ task'.arg[2] = FALSE )
         => /\ task'.arg[1] \notin DOMAIN formData'.risks
            /\ \A h \in DOMAIN formData.risks \ {task'.arg[1]} :
                 h \in DOMAIN formData'.risks /\ formData'.risks[h] = formData.risks[h]
    ]_vars

\* the first hazard, whose entry carried a level, has just been unchecked while
\* the second stays checked, in a draft opened from a stored record that holds
\* the first hazard's entry
C7_Witness ==
  /\ task.op = "handleRiskChange" /\ task.key = "checked"
  /\ task.arg = << RISK_ITEMS[1], FALSE >>
  /\ DOMAIN formData.risks = { RISK_ITEMS[2] }
  /\ editingMission # <<>>
  /\ RISK_ITEMS[1] \in DOMAIN editingMission[1].risks
  /\ editingMission[1].risks[RISK_ITEMS[1]].level = "High"

\* v plus 30 minutes on the wall clock, rolling over the hour and the day
Plus30(s) ==
  LET m == s[3] + 30
      h == s[2] + (m \div 60)
  IN  << s[1] + (h \div 24), h % 24, m % 60 >>

\* C8: after update('start', v) with a value v of the start input that is not
\* the cleared input, the draft's end is v plus 30 minutes, whatever it was.
C8_StartSetsEnd ==
  [][ ( /\ task'.op = "update" /\ task'.key = "start"
        /\ task'.arg[1] # <<>> )
        => formData'.end = Plus30(task'.arg[1])
    ]_vars

\* C4: every stored record has a non-empty id, and the put of a new mission
\* (a save of a draft that was not opened from a stored record) never
\* replaces a record the table holds.
C4_IdsNonEmptyAndFresh ==
  [][ /\ \A i \in DOMAIN dbMissions' : i # 0 /\ dbMissions'[i].id = i
      /\ ( /\ task.op = "save" /\ task.pc = "put" /\ task'.pc = "toArray"
           /\ editingMission = <<>> )
         => task.mission[1].id \notin DOMAIN dbMissions
    ]_vars

\* C5: the record saveMission emits for a draft opened by editing stored
\* record R carries R's id and R's created.
C5_EditKeepsIdAndCreated ==
  [][ ( /\ task'.op = "save" /\ task'.pc = "put" /\ task.pc \in TerminalPcs
        /\ editingMission # <<>> )
        => /\ task'.mission[1].id = editingMission[1].id
           /\ task'.mission[1].created = editingMission[1].created
    ]_vars

\* the values of the saved mission that belong in the list listKey
ListValues(mission, listKey) ==
  LET val == mission[fieldMap[listKey]]
  IN  IF listKey = "aerodromes" THEN { val[i] : i \in 1..Len(val) } ELSE {val}

\* C6: when a save has succeeded, every non-empty value of a list-backed field
\* of the saved mission is a member of its suggestion list (for the lists the
\* variant has), and no list holds a value twice.
C6_SavedValuesInLists ==
  [][ ( task.op = "save" /\ task.pc = "toArray" /\ task'.pc = "done" )
        => /\ \A listKey \in DOMAIN lists' :
                \A x \in ListValues(task.mission[1], listKey) \ {""} :
                  Includes(lists'[listKey], x)
           /\ \A listKey \in DOMAIN lists' :
                \A i, j \in 1..Len(lists'[listKey]) :
                  lists'[listKey][i] = lists'[listKey][j] => i = j
    ]_vars

----------------------------------------------------------------------------
(* Properties of the stored records and lists *)

\* the records the persisted mission store holds
StoredRecords == { dbMissions[i] : i \in DOMAIN dbMissions }

\* the records the in-memory array holds
ShownRecords == { missions[i] : i \in 1..Len(missions) }

\* C11: a confirmed delete of id removes from the persisted store the record
\* with that id and no other, the in-memory array then holds exactly the
\* records the store holds, the suggestion lists in memory and in the store
\* stay as they were, and a declined delete changes nothing.
C11_DeleteRemovesExactlyOne ==
  [][ /\ (task.op = "delete" /\ task.pc = "delete" /\ task'.pc = "toArray")
         => /\ task.confirmed
            /\ StoredRecords' = { r \in StoredRecords : r.id # task.id }
            /\ UNCHANGED <<lists, dbSettings, missions>>
      /\ (task.op = "delete" /\ task.pc = "toArray" /\ task'.pc = "done")
         => /\ ShownRecords' = StoredRecords /\ Len(missions') = Cardinality(StoredRecords)
            /\ UNCHANGED <<lists, dbSettings, dbMissions>>
      /\ (variant = "appB" /\ task'.op = "delete" /\ task'.pc = "done"
            /\ task.pc \in TerminalPcs)
         => /\ task'.confirmed
            /\ StoredRecords' = { r \in StoredRecords : r.id # task'.id }
            /\ ShownRecords' = StoredRecords'
            /\ Len(missions') = Cardinality(StoredRecords')
            /\ UNCHANGED <<lists, dbSettings>>
      /\ (task'.op = "delete" /\ task'.pc = "declined")
         => UNCHANGED <<dbMissions, dbSettings, missions, lists>>
    ]_vars

\* one of two records has been deleted from the table and the array in memory
\* still shows both
C11_Witness ==
  /\ task.op = "delete" /\ task.pc = "toArray" /\ task.confirmed
  /\ Len(missions) = 2
  /\ Cardinality(StoredRecords) = 1
  /\ \A r \in StoredRecords : r.id # task.id
  /\ \E i \in 1..Len(missions) : missions[i].id = task.id

\* C12: when the start-up load has set the lists, every entry of every
\* built-in list is in the in-memory list of the same name, and with nothing
\* persisted the in-memory store is the built-in store.
C12_DefaultsPresentAfterLoad ==
  [][ (task.op = "load" /\ task.pc \notin TerminalPcs /\ task'.pc = "done")
        => /\ \A k \in DOMAIN DEFAULT_LISTS(variant) :
                /\ k \in DOMAIN lists'
                /\ \A i \in 1..Len(DEFAULT_LISTS(variant)[k]) :
                     Includes(lists'[k], DEFAULT_LISTS(variant)[k][i])
           /\ dbSettings = <<>> => lists' = DEFAULT_LISTS(variant)
    ]_vars

\* no string is at two positions of seq
NoDuplicates(seq) == \A i, j \in 1..Len(seq) : seq[i] = seq[j] => i = j

\* C13: from the built-in lists of a fresh installation, whatever the user
\* deletes in a picker, whatever saves add and whatever a start-up load
\* brings back, no list in memory and no list of the persisted store holds a
\* string twice.
C13_ListsHoldNoDuplicates ==
  /\ \A k \in DOMAIN lists : NoDuplicates(lists[k])
  /\ \A i \in 1..Len(dbSettings) : \A k \in DOMAIN dbSettings[i] : NoDuplicates(dbSettings[i][k])
  /\ \A i \in 1..Len(settingsQ) : \A k \in DOMAIN settingsQ[i] : NoDuplicates(settingsQ[i][k])

\* after a restart the load has brought back a list that lost a built-in
\* entry to a picker delete or gained an entry from a save or the Add button
C13_Witness ==
  /\ task.op = "load" /\ task.pc = "done"
  /\ lists # DEFAULT_LISTS(variant)
  /\ dbSettings = << lists >>
  /\ \E k \in DOMAIN lists :
       /\ Len(lists[k]) > 0
       /\ \/ \E i \in 1..Len(DEFAULT_LISTS(variant)[k]) :
               ~Includes(lists[k], DEFAULT_LISTS(variant)[k][i])
          \/ \E i \in 1..Len(lists[k]) :
               ~Includes(DEFAULT_LISTS(variant)[k], lists[k][i])

----------------------------------------------------------------------------
(* Properties of the CSV export *)

\* C14: a reader of standard CSV recovers from an exported file the header
\* row and, for every record, the original text of every field; so every
\* row has as many columns as the header, whatever commas, double quotes and
\* newlines the fields contain.
C14_CsvRoundTrips ==
  \A f \in 1..Len(download) :
    ParseCSV(download[f].content)
      = <<headers(variant)>> \o [ i \in 1..Len(missions) |-> Cells(variant, missions[i]) ]

\* the risk summary as described: "<hazard> [<level or '-'>]", then
\* " (Mitigation: <text>)" when there is a mitigation text, the checked
\* hazards joined by " | ", and "None" for a risk object without entries
RiskSummary(risks) ==
  LET keys == CheckedKeys(risks)
      entry(h) ==
        << h, " [", IF risks[h].level = "" THEN "-" ELSE risks[h].level, "]" >>
          \o (IF risks[h].mitigation = <<>> THEN <<>>
              ELSE <<" (Mitigation: ">> \o risks[h].mitigation \o <<")">>)
  IN  IF DOMAIN risks = {} THEN <<"None">>
      ELSE Join([ i \in 1..Len(keys) |-> entry(keys[i]) ], <<" | ">>)

\* C15: the risk summary written into every row of an exported file is the
\* one described: checked hazards as "<hazard> [<level or '-'>]", followed by
\* " (Mitigation: <text>)" only when a mitigation exists, joined by " | ",
\* and "None" for an empty risk set.
C15_RiskSummaryFormat ==
  download # <<>> =>
    \A i \in 1..Len(missions) :
      formatRisks(variant, missions[i].risks) = RiskSummary(missions[i].risks)

\* C16: exporting an empty record set produces no file and shows a notice;
\* exporting N records produces one file whose rows are the header row and
\* then one row per record in memory, in the order of the array.
C16_ExportRows ==
  [][ task'.op = "exportToCSV" =>
        IF missions = <<>>
        THEN download' = download /\ msg' # ""
        ELSE /\ Len(download') = Len(download) + 1
             /\ LET rows == ParseCSV(download'[Len(download')].content)
                IN  /\ Len(rows) = 1 + Len(missions)
                    /\ rows[1] = headers(variant)
                    /\ \A i \in 1..Len(missions) :
                         rows[i + 1][1] = <<ToString(missions[i].id)>>
    ]_vars

----------------------------------------------------------------------------
(* Properties of the form steps and the dashboard *)

\* C17: the step pointer is 1, 2 or 3; Next adds one and Back subtracts one,
\* neither leaving that range; and a save is started only while the pointer
\* is 3.
C17_StepPointer ==
  [][ /\ step \in {1, 2, 3} /\ step' \in {1, 2, 3}
      /\ task'.op = "next" => step' = step + 1
      /\ task'.op = "back" => step' = step - 1
      /\ (view = "form" /\ Idle /\ task'.op = "save" /\ task'.pc \in {"put", "invalid"})
           => step = 3
    ]_vars

\* text contains term when letter case is ignored
ContainsIgnoringCase(text, term) ==
  \E i \in 0..(Len(text) - Len(term)) :
    \A j \in 1..Len(term) :
      toLowerCase(<<text[i + j]>>) = toLowerCase(<<term[j]>>)

\* C18: the dashboard lists exactly the records in memory whose location or
\* pilot contains the search term ignoring case, each once, in descending
\* order of start, and the count it displays is the number of records listed.
C18_DashboardListing ==
  LET listed == filteredMissions(variant, missions, searchTerm)
      matching == { i \in 1..Len(missions) :
                      \/ ContainsIgnoringCase(missions[i].location, searchTerm)
                      \/ ContainsIgnoringCase(missions[i].pilot, searchTerm) }
  IN  /\ Len(listed) = Cardinality(matching)
      /\ \A i \in matching : \E j \in 1..Len(listed) : listed[j] = missions[i]
      /\ \A j, k \in 1..Len(listed) : j < k => listed[j].start >= listed[k].start
      /\ RecordsCount(variant, missions, searchTerm) = Len(listed)

----------------------------------------------------------------------------
(* Properties of backup *)

\* C19: when the restore of a backup file has run to its end, the persisted
\* records and the persisted list store are exactly the ones the stores held
\* when the backup was made.
C19_RestoreBringsBackStores ==
  [][ (task.op = "restore" /\ task.pc = "toArray" /\ task'.pc = "done")
        => /\ dbMissions' = download[Len(download)].persisted.missions
           /\ dbSettings' = download[Len(download)].persisted.settings
    ]_vars

----------------------------------------------------------------------------
(* Properties of failure handling *)

\* C20: when a persistence call awaited by a save, a delete or a restore
\* fails, the handler ends in its catch block with a message shown to the
\* user, and when a settings write of a list update fails a message is shown
\* as well; no failure passes silently.
C20_FailuresAreReported ==
  [][ /\ (task.op \in {"save", "delete", "restore"} /\ task.pc \notin TerminalPcs
            /\ task'.pc \in {"failed", "rejected"})
         => (task'.pc = "failed" /\ msg' # "")
      /\ (settingsQ # <<>> /\ settingsQ' = Tail(settingsQ)
            /\ dbSettings' # << Head(settingsQ) >>)
         => msg' # ""
    ]_vars

----------------------------------------------------------------------------
(* Properties of the in-memory view *)

\* C21: whenever no persistence operation is in flight, the records of the
\* in-memory array are the records of the persisted mission table, each once.
C21_MemoryEqualsTable ==
  (task.pc \in TerminalPcs /\ tx = <<>>)
    => /\ ShownRecords = StoredRecords
       /\ Len(missions) = Cardinality(StoredRecords)

C23_EditReplacesInPlace ==
  [][ (task.op = "save" /\ task.pc = "put" /\ task'.pc = "toArray"
         /\ editingMission # <<>>)
        => /\ DOMAIN dbMissions' = DOMAIN dbMissions
           /\ editingMission[1].id \in DOMAIN dbMissions
           /\ dbMissions'[editingMission[1].id] = task.mission[1]
           /\ \A id \in DOMAIN dbMissions :
                id # editingMission[1].id => dbMissions'[id] = dbMissions[id]
    ]_vars

-----------------------------------------------------------------------------
(* Properties of the service worker *)

\* a step of the fetch listener: the connection and the server are as before
WorkerAnswered ==
  /\ worker' # worker
  /\ worker'.online = worker.online
  /\ worker'.server = worker.server

\* C24: with the network unavailable a same-origin navigation request for a
\* URL whose response was fetched and cached while online is answered with a
\* cached response; while online a navigation request is answered from the
\* network and the cached copy of its URL becomes the fresh response.
C24_NavigationNetworkFirst ==
  [][ (/\ WorkerAnswered
       /\ worker'.served[1].mode = "navigate"
       /\ worker'.served[1].sameOrigin)
        => LET url == worker'.served[1].url
           IN  /\ (~worker.online /\ worker.cache[url] # 0)
                    => worker'.served[1].from = "cache"
               /\ worker.online
                    => /\ worker'.served[1].from = "network"
                       /\ worker'.served[1].version = worker.server
                       /\ worker'.cache[url] = worker.server
    ]_vars

-----------------------------------------------------------------------------
(* Properties of the sketch pad *)

\* C25: the sketch pad emits a snapshot exactly once per stroke: pointer-up or
\* pointer-leave while drawing ends the stroke and emits the snapshot of the
\* canvas as it is; nothing else emits a snapshot, so pointer-up or
\* pointer-leave while not drawing emits nothing; pointer-move while not
\* drawing draws nothing.
C25_OneSnapshotPerStroke ==
  [][ /\ (pad'.event \in {"up", "leave"} /\ pad.isDrawing /\ pad' # pad)
        => /\ ~pad'.isDrawing
           /\ pad'.emitted = pad.emitted + 1
           /\ formData'.sketch = << pad.raster >>
      /\ (pad'.event # "mount" /\ pad'.emitted # pad.emitted)
        => /\ pad'.event \in {"up", "leave"}
           /\ pad.isDrawing
           /\ pad'.emitted = pad.emitted + 1
      /\ (pad'.event \in {"up", "leave"} /\ ~pad.isDrawing)
        => /\ pad'.emitted = pad.emitted
           /\ formData' = formData
      /\ (pad'.event = "move" /\ ~pad.isDrawing)
        => /\ pad'.raster = pad.raster
           /\ formData' = formData
    ]_vars

\* two strokes have been ended and emitted, the last event was a pointer-up,
\* and the draft holds the snapshot of the canvas with both segments
C25_Witness ==
  /\ view = "form" /\ step = SketchStep(variant)
  /\ pad.event = "up" /\ ~pad.isDrawing
  /\ pad.emitted = 2 /\ pad.raster = 2
  /\ formData.sketch = << 2 >>

-----------------------------------------------------------------------------
(* Properties of the draft *)

\* C26: handleRiskChange on a hazard that has no entry, for any call other
\* than unchecking, creates the entry from {checked: false, level: '',
\* desc: '', mitigation: ''} with only the named sub-field overwritten, and
\* leaves every other hazard's entry and every other field of the draft as
\* they were; so a hazard checked again after being unchecked has an entry
\* with empty level, desc and mitigation.
C26_RiskEntryFromDefaults ==
  [][ (/\ task'.op = "handleRiskChange"
       /\ formData' # formData
       /\ task'.arg[1] \notin DOMAIN formData.risks
       /\ ~(task'.key = "checked" /\ task'.arg[2] = FALSE))
        => LET riskName == task'.arg[1]
               field == task'.key
               value == task'.arg[2]
           IN  /\ riskName \in DOMAIN formData'.risks
               /\ formData'.risks[riskName] =
                    [ [ checked |-> FALSE, level |-> "", desc |-> "",
                        mitigation |-> "" ] EXCEPT ![field] = value ]
               /\ DOMAIN formData'.risks = DOMAIN formData.risks \cup {riskName}
               /\ \A h \in DOMAIN formData.risks :
                    formData'.risks[h] = formData.risks[h]
               /\ \A k \in DOMAIN formData \ {"risks"} : formData'[k] = formData[k]
               /\ (field = "checked")
                    => /\ formData'.risks[riskName].level = ""
                       /\ formData'.risks[riskName].desc = ""
                       /\ formData'.risks[riskName].mitigation = ""
    ]_vars

\* the second hazard has just been checked and its entry is the defaults with
\* checked set, while the first hazard keeps the entry typed before
C26_Witness ==
  /\ task.op = "handleRiskChange" /\ task.key = "checked"
  /\ task.arg = << RISK_ITEMS[2], TRUE >>
  /\ RISK_ITEMS[1] \in DOMAIN formData.risks
  /\ formData.risks[RISK_ITEMS[1]] =
       [ checked |-> TRUE, level |-> "High", desc |-> "Wires",
         mitigation |-> "Spotter" ]
  /\ formData.risks[RISK_ITEMS[2]] =
       [ checked |-> TRUE, level |-> "", desc |-> "", mitigation |-> "" ]
  /\ formData.location = "Site A"

\* C27: the aerodromes of the draft never hold the same entry twice, after
\* any sequence of adds and removals in the multi-value picker, starting from
\* the empty list of a new draft or from a stored record without duplicates.
C27_AerodromesDistinct ==
  /\ NoDuplicates(formData.aerodromes)
  /\ \A i \in 1..Len(missions) : NoDuplicates(missions[i].aerodromes)
  /\ \A id \in DOMAIN dbMissions : NoDuplicates(dbMissions[id].aerodromes)

\* a stored record with two aerodromes is being edited and Enter was pressed
\* on the text of its first one: the list is as it was
C27_Witness ==
  /\ editingMission # <<>>
  /\ task.op = "onKeyDown" /\ task.arg = << "Moncton (CYQM) - 120.8" >>
  /\ formData.aerodromes = << "Moncton (CYQM) - 120.8", "Heliport" >>
  /\ editingMission[1].aerodromes = formData.aerodromes

\* a checked hazard of Medium or High level without a mitigation
Unmitigated(m) ==
  \E h \in DOMAIN m.risks :
    /\ m.risks[h].checked
    /\ m.risks[h].level \in {"Medium", "High"}
    /\ m.risks[h].mitigation = ""

\* C28: a mission cannot be saved while a checked hazard whose level is
\* Medium or High has an empty mitigation: saveMission hands no such draft to
\* onSave and no such record is stored.
C28_MitigationMandatory ==
  [][ /\ (task'.op = "save" /\ task'.pc = "put" /\ Idle) => ~Unmitigated(formData)
      /\ \A id \in DOMAIN dbMissions' : ~Unmitigated(dbMissions'[id])
    ]_vars

-----------------------------------------------------------------------------
(* Properties of a reload *)

\* C29: after a confirmed restore whose document carries a lists value, the
\* suggestion-list store in memory equals what loadData produces from the
\* persisted store at the next start-up: the same list names with the same
\* entries.
C29_RestoredListsSurviveReload ==
  [][ (/\ task.op = "restore" /\ task.pc = "toArray"
       /\ task'.op = "restore" /\ task'.pc = "done"
       /\ task.doc[1].lists # <<>>)
        => /\ dbSettings' # <<>>
           /\ lists' = LoadedLists(variant, dbSettings'[1])
    ]_vars

-----------------------------------------------------------------------------
(* Properties of an abandoned draft *)

\* the handlers of the form other than Save
DraftOps ==
  {"update", "handleCoordChange", "handleRiskChange", "next", "back", "onCancel"}

\* C30: field, coordinate and risk updates of a new or an edited draft, the
\* steps between them and the Cancel that leaves the form change neither the
\* persisted mission table nor the missions in memory; when Cancel leaves the
\* form of an edited record, that record is in both as it was when opened.
C30_CancelDiscardsDraft ==
  [][ (view = "form" /\ task'.op \in DraftOps)
        => /\ missions' = missions
           /\ dbMissions' = dbMissions
           /\ (task'.op = "onCancel" /\ editingMission # <<>>)
                => /\ \E i \in 1..Len(missions') : missions'[i] = editingMission[1]
                   /\ editingMission[1].id \in DOMAIN dbMissions'
                   /\ dbMissions'[editingMission[1].id] = editingMission[1]
    ]_vars

\* the form of a stored record with coordinates and a checked hazard has been
\* left with Cancel; the record is in memory and in the table as it was opened
C30_Witness ==
  /\ task.op = "onCancel" /\ view = "dashboard"
  /\ editingMission # <<>>
  /\ editingMission[1].coords.lat = "45.96"
  /\ RISK_ITEMS[1] \in DOMAIN editingMission[1].risks
  /\ missions = editingMission
  /\ dbMissions[editingMission[1].id] = editingMission[1]
====
